---- MODULE Spec2Model ----
(***************************************************************************)
(* Model of the grci simulator (src/src/grci.c): module descriptions as    *)
(* the compiler leaves them, elaboration of a description into a flat node *)
(* graph (grci_make_module / grci_init_module) and the clocked step        *)
(* (grci_step_module, grci_eval_dff, grci_eval_node).                      *)
(*                                                                         *)
(* C indices are kept 0-based inside records; TLA+ sequences are 1-based,  *)
(* so element i of a C array is seq[i + 1].  Node pointers are indices     *)
(* into sim.nodes (1-based), NULL is 0.                                    *)
(***************************************************************************)
EXTENDS Integers, Sequences, FiniteSets, TLC

\* ---------------------------------------------------------------------------
\* Program constants
\* ---------------------------------------------------------------------------
GRCI_OUTPUT_NONE == -1
GRCI_OUTPUT_0 == -2
GRCI_OUTPUT_1 == -3
RamBytes == 65536
GRCI_RAM64K_STATE_COUNT == RamBytes * 8
RegisterWidth == 8
NULL == 0
NoName == ""
Retained == -1

\* ---------------------------------------------------------------------------
\* Bounds of the model
\* ---------------------------------------------------------------------------
MaxSteps == 4
MaxRegSteps == 6
MaxRamSteps == 3
MaxWrites == 1
MaxCompiles == 2
MaxCalls == 3
MaxGrow == 1
MaxPairCalls == 3
MaxTextLen == 3
MaxTokCalls == 3

\* ---------------------------------------------------------------------------
\* Generic helpers
\* ---------------------------------------------------------------------------
\* for (i = 0; i < n; i++) acc = op(acc, i)   (x is bound to the value of
\* op(acc, i), so each iteration is evaluated once)
RECURSIVE FoldFrom(_, _, _, _)
FoldFrom(op(_, _), acc, i, n) ==
    IF i >= n THEN acc
    ELSE CHOOSE r \in {FoldFrom(op, x, i + 1, n) : x \in {op(acc, i)}} : TRUE

Fold(op(_, _), base, n) == CHOOSE r \in {FoldFrom(op, b, 0, n) : b \in {base}} : TRUE

\* f applied to the value of x, which is computed once
Then(x, f(_)) == CHOOSE r \in {f(y) : y \in {x}} : TRUE

BitOf(v, i) == (v \div (2 ^ i)) % 2

B2N(b) == IF b THEN 1 ELSE 0

\* bits i..i+w-1 of v as a little-endian sequence of booleans
Bits(v, w) == [i \in 1..w |-> BitOf(v, i - 1) = 1]

\* ---------------------------------------------------------------------------
\* Connections and module descriptions
\* ---------------------------------------------------------------------------
extern_conn(parameter_idx) ==
    [type |-> "EXTERNAL", parameter_idx |-> parameter_idx, idx |-> 0, output_idx |-> 0, constant |-> FALSE]

intern_conn(part_idx, output_idx) ==
    [type |-> "INTERNAL", parameter_idx |-> 0, idx |-> part_idx, output_idx |-> output_idx, constant |-> FALSE]

const_conn(constant) ==
    [type |-> "CONSTANT", parameter_idx |-> 0, idx |-> 0, output_idx |-> 0, constant |-> constant]

output_part(idx, output_idx) == [idx |-> idx, output_idx |-> output_idx]

nand_decl ==
    [name |-> "Nand", parts |-> <<>>, part_names |-> <<>>, part_connections |-> <<>>,
     part_count |-> 0, input_param_count |-> 2, output_param_count |-> 1,
     input_widths |-> <<1, 1>>, output_widths |-> <<1>>,
     input_count |-> 2, outputs |-> <<output_part(GRCI_OUTPUT_NONE, GRCI_OUTPUT_NONE)>>,
     output_count |-> 1, is_nand |-> TRUE, is_dff |-> FALSE, is_ram64K |-> FALSE,
     sink_counts |-> <<1, 1>>, node_count |-> 1, dff_count |-> 0]

dff_decl ==
    [name |-> "Dff", parts |-> <<>>, part_names |-> <<>>, part_connections |-> <<>>,
     part_count |-> 0, input_param_count |-> 1, output_param_count |-> 1,
     input_widths |-> <<1>>, output_widths |-> <<1>>,
     input_count |-> 1, outputs |-> <<output_part(GRCI_OUTPUT_NONE, GRCI_OUTPUT_NONE)>>,
     output_count |-> 1, is_nand |-> FALSE, is_dff |-> TRUE, is_ram64K |-> FALSE,
     sink_counts |-> <<1>>, node_count |-> 1, dff_count |-> 1]

ram64K_decl ==
    [name |-> "Ram64K", parts |-> <<>>, part_names |-> <<>>, part_connections |-> <<>>,
     part_count |-> 0, input_param_count |-> 3, output_param_count |-> 1,
     input_widths |-> <<16, 1, 16>>, output_widths |-> <<16>>,
     input_count |-> 33, outputs |-> [i \in 1..16 |-> output_part(GRCI_OUTPUT_NONE, GRCI_OUTPUT_NONE)],
     output_count |-> 16, is_nand |-> FALSE, is_dff |-> FALSE, is_ram64K |-> TRUE,
     sink_counts |-> [i \in 1..33 |-> 1], node_count |-> 16, dff_count |-> 16]

\* The tail of grci_compiler_compile_module: the per-input sink counts and the
\* aggregate node and DFF counts of a lowered module, from those of its parts.
\* defs is the module table at the time of the definition; parts are indices
\* into it (the C code holds pointers to the entries).
SinkCounts(defs, parts, conns, input_count) ==
    LET addPart(sc, p) ==
            Fold(LAMBDA s, i:
                    LET c == conns[p + 1][i + 1] IN
                    IF c.type = "EXTERNAL"
                    THEN [s EXCEPT ![c.parameter_idx + 1] = @ + defs[parts[p + 1]].sink_counts[i + 1]]
                    ELSE s,
                 sc, Len(conns[p + 1]))
    IN Fold(addPart, [i \in 1..input_count |-> 0], Len(parts))

compile_module(defs, src) ==
    [name |-> src.name, parts |-> src.parts, part_names |-> src.part_names,
     part_connections |-> src.conns,
     input_count |-> src.input_count, outputs |-> src.outputs, output_count |-> Len(src.outputs),
     is_nand |-> FALSE, is_dff |-> FALSE, is_ram64K |-> FALSE,
     sink_counts |-> SinkCounts(defs, src.parts, src.conns, src.input_count),
     node_count |-> Fold(LAMBDA n, p: n + defs[src.parts[p + 1]].node_count, 0, Len(src.parts)),
     dff_count |-> Fold(LAMBDA n, p: n + defs[src.parts[p + 1]].dff_count, 0, Len(src.parts))]

\* a parsed module definition, as grci_compile_module holds it before lowering
ModuleSrc(name, parts, part_names, conns, input_count, outputs) ==
    [name |-> name, parts |-> parts, part_names |-> part_names, conns |-> conns,
     input_count |-> input_count, outputs |-> outputs]

\* a lookup that returns the entry registered last under that name
grci_module_desc_list_get_last(defs, name) ==
    IF \E i \in 1..Len(defs) : defs[i].name = name
    THEN CHOOSE i \in 1..Len(defs) : defs[i].name = name /\ \A j \in (i + 1)..Len(defs) : defs[j].name # name
    ELSE NULL

\* grci_module_desc_list_get: the first entry with that name, 0 when none
grci_module_desc_list_get(defs, name) ==
    IF \E i \in 1..Len(defs) : defs[i].name = name
    THEN CHOOSE i \in 1..Len(defs) : defs[i].name = name /\ \A j \in 1..(i - 1) : defs[j].name # name
    ELSE NULL

\* ---------------------------------------------------------------------------
\* The module table: the three built-ins registered by grci_compiler_init,
\* followed by the descriptions that grci_compile_src registers for the HDL
\* sources below (each description is the lowering of the text quoted above it).
\* ---------------------------------------------------------------------------
iNand == 1
iDff == 2
iRam64K == 3
iNot == 4
iAnd == 5
iMux == 6
iBit == 7
iRegister == 8
iPair == 9
iSeq3 == 10
iNest == 11
iMem == 12
iMemU == 13
iMemChain == 14

grci_compiler_init == <<nand_decl, dff_decl, ram64K_decl>>

\* module Not(in) -> out { Nand(in, in) -> out }
Src_Not ==
    ModuleSrc("Not", <<iNand>>, <<NoName>>,
                          << <<extern_conn(0), extern_conn(0)>> >>, 1, <<output_part(0, 0)>>)

\* module And(a, b) -> out { Nand(a, b) -> temp Not(temp) -> out }
Src_And ==
    ModuleSrc("And", <<iNand, iNot>>, <<NoName, NoName>>,
                          << <<extern_conn(0), extern_conn(1)>>, <<intern_conn(0, 0)>> >>,
                          2, <<output_part(1, 0)>>)

\* module Mux(a, b, sel) -> out {
\*     Not(sel) -> ns  Nand(a, ns) -> x  Nand(b, sel) -> y  Nand(x, y) -> out }
Src_Mux ==
    ModuleSrc("Mux", <<iNot, iNand, iNand, iNand>>,
                          <<NoName, NoName, NoName, NoName>>,
                          << <<extern_conn(2)>>,
                             <<extern_conn(0), intern_conn(0, 0)>>,
                             <<extern_conn(1), extern_conn(2)>>,
                             <<intern_conn(1, 0), intern_conn(2, 0)>> >>,
                          3, <<output_part(3, 0)>>)

\* module Bit(in, load) -> out { Mux(out, in, load) -> d  Dff(d) -> out }
Src_Bit ==
    ModuleSrc("Bit", <<iMux, iDff>>, <<NoName, NoName>>,
                          << <<intern_conn(1, 0), extern_conn(0), extern_conn(1)>>,
                             <<intern_conn(0, 0)>> >>,
                          2, <<output_part(1, 0)>>)

\* module Register(in[8], load) -> out[8] {
\*     Bit(in[0], load) -> out[0]  ...  Bit(in[7], load) -> out[7] }
Src_Register ==
    ModuleSrc("Register",
                          [i \in 1..RegisterWidth |-> iBit],
                          [i \in 1..RegisterWidth |-> NoName],
                          [i \in 1..RegisterWidth |-> <<extern_conn(i - 1), extern_conn(RegisterWidth)>>],
                          RegisterWidth + 1,
                          [i \in 1..RegisterWidth |-> output_part(i - 1, 0)])

\* module Pair(in) -> a, b { Dff(in) -> a  Dff(a) -> b }
Src_Pair ==
    ModuleSrc("Pair", <<iDff, iDff>>, <<NoName, NoName>>,
                          << <<extern_conn(0)>>, <<intern_conn(0, 0)>> >>,
                          1, <<output_part(0, 0), output_part(1, 0)>>)

\* module Seq3(in) -> o0, o1, o2 {
\*     s0: Dff(x) -> o0  s1: Dff(o0) -> o1  s2: Dff(n2) -> o2
\*     Nand(o2, in) -> x  Not(o2) -> n2 }
Src_Seq3 ==
    ModuleSrc("Seq3", <<iDff, iDff, iDff, iNand, iNot>>,
                          <<"s0", "s1", "s2", NoName, NoName>>,
                          << <<intern_conn(3, 0)>>,
                             <<intern_conn(0, 0)>>,
                             <<intern_conn(4, 0)>>,
                             <<intern_conn(2, 0), extern_conn(0)>>,
                             <<intern_conn(2, 0)>> >>,
                          1, <<output_part(0, 0), output_part(1, 0), output_part(2, 0)>>)

\* module Nest(in) -> x, y, z {
\*     Nand(in, in) -> n  p: Pair(n) -> x, t  Dff(t) -> u  q: Pair(u) -> y, z }
Src_Nest ==
    ModuleSrc("Nest", <<iNand, iPair, iDff, iPair>>,
                          <<NoName, "p", NoName, "q">>,
                          << <<extern_conn(0), extern_conn(0)>>,
                             <<intern_conn(0, 0)>>,
                             <<intern_conn(1, 1)>>,
                             <<intern_conn(2, 0)>> >>,
                          1, <<output_part(1, 0), output_part(3, 0), output_part(3, 1)>>)

\* module Mem(in[16], load, addr[16]) -> out[16] { ram: Ram64K(in, load, addr) -> out }
Src_Mem ==
    ModuleSrc("Mem", <<iRam64K>>, <<"ram">>,
                          << [i \in 1..33 |-> extern_conn(i - 1)] >>,
                          33, [i \in 1..16 |-> output_part(0, i - 1)])

\* module MemU(in[16], load, addr[16]) -> out[16] { Ram64K(in, load, addr) -> out }
Src_MemU ==
    ModuleSrc("MemU", <<iRam64K>>, <<NoName>>,
                          << [i \in 1..33 |-> extern_conn(i - 1)] >>,
                          33, [i \in 1..16 |-> output_part(0, i - 1)])

\* module MemChain(in[16], load, addr[16]) -> out[16] {
\*     b: Ram64K(in, load, addr) -> t  a: Ram64K(in, 0, t) -> out }
Src_MemChain ==
    ModuleSrc("MemChain", <<iRam64K, iRam64K>>, <<"b", "a">>,
                          << [i \in 1..33 |-> extern_conn(i - 1)],
                             [i \in 1..33 |-> IF i <= 16 THEN extern_conn(i - 1)
                                              ELSE IF i = 17 THEN const_conn(FALSE)
                                              ELSE intern_conn(0, i - 18)] >>,
                          33, [i \in 1..16 |-> output_part(1, i - 1)])

hdl_sources ==
    <<Src_Not, Src_And, Src_Mux, Src_Bit, Src_Register, Src_Pair, Src_Seq3, Src_Nest,
      Src_Mem, Src_MemU, Src_MemChain>>

\* grci_compile_src on each source in turn: every module is lowered against the
\* table as it stands and appended to it
module_defs ==
    Fold(LAMBDA defs, i: Append(defs, compile_module(defs, hdl_sources[i + 1])),
         grci_compiler_init, Len(hdl_sources))

\* ---------------------------------------------------------------------------
\* Simulator data: nodes, RAM blocks, input slots
\* ---------------------------------------------------------------------------
\* struct grci_node with the members of its union side by side; last_state is
\* shared by the dff and ram64Kout members (same offset in both structs).
Node(type) ==
    [type |-> type, a |-> NULL, b |-> NULL, input |-> NULL, ram |-> NULL,
     constant |-> FALSE, last_state |-> FALSE, visited |-> FALSE, cached_state |-> FALSE]

\* An input slot is the address of a node pointer: &node->as.nand.a, &ram->load, ...
Slot(k, n, i) == [k |-> k, n |-> n, i |-> i]

\* *slot = obj
SetSlot(sim, slot, obj) ==
    CASE slot.k = "a" -> [sim EXCEPT !.nodes[slot.n].a = obj]
      [] slot.k = "b" -> [sim EXCEPT !.nodes[slot.n].b = obj]
      [] slot.k = "input" -> [sim EXCEPT !.nodes[slot.n].input = obj]
      [] slot.k = "ram_inputs" -> [sim EXCEPT !.rams[slot.n].inputs[slot.i + 1] = obj]
      [] slot.k = "ram_load" -> [sim EXCEPT !.rams[slot.n].load = obj]
      [] slot.k = "ram_addrs" -> [sim EXCEPT !.rams[slot.n].addrs[slot.i + 1] = obj]

\* sim->nodes[sim->node_count] = n; sim->node_count++  (overrun records a write past
\* the end of the node array)
NewNode(sim, n) ==
    [sim EXCEPT !.nodes = Append(@, n),
                !.node_count = @ + 1,
                !.overrun = @ \/ sim.node_count >= sim.node_cap]

\* sim->dff_nodes[sim->dff_node_count] = n; sim->dff_node_count++
NewDffEntry(sim) ==
    [sim EXCEPT !.dff_nodes = Append(@, sim.node_count),
                !.dff_node_count = @ + 1,
                !.overrun = @ \/ sim.dff_node_count >= sim.dff_cap]

grci_constant_new(sim, c) ==
    NewNode(sim, [Node("CONSTANT") EXCEPT !.constant = c, !.cached_state = c])

grci_nand_new(sim) == NewNode(sim, Node("NAND"))

grci_dff_new(sim) == Then(NewNode(sim, Node("DFF")), NewDffEntry)

grci_ram64kout_new(sim, ram) ==
    Then(NewNode(sim, [Node("RAM64KOUT") EXCEPT !.ram = ram]), NewDffEntry)

\* The 64 KiB store is kept sparse: m holds the bytes (0..255, the bit pattern
\* of the C char) that differ from def, the value of all other bytes.  The
\* store comes from grci_arena_malloc and is not cleared: def is what the
\* allocator handed out.  spill is the byte last written at data[65536], one
\* past the end of the store.
RamData(def) == [def |-> def, m |-> <<>>, spill |-> def]

\* data[a] as a bit pattern.  A byte past the end of the store is not the
\* store's: it reads as what was last written there (sim.oobv = Retained) or as
\* whatever its owner has put there since (any other sim.oobv, chosen per step).
ReadByte(sim, r, a) ==
    LET data == sim.rams[r].data IN
    IF a >= RamBytes THEN (IF sim.oobv = Retained THEN data.spill ELSE sim.oobv)
    ELSE IF a \in DOMAIN data.m THEN data.m[a] ELSE data.def

\* data[a] = v; a write past the end lands outside the store
PutByte(data, a, v) ==
    IF a >= RamBytes THEN [data EXCEPT !.spill = v]
    ELSE IF v = data.def THEN [data EXCEPT !.m = [x \in (DOMAIN data.m) \ {a} |-> data.m[x]]]
    ELSE [data EXCEPT !.m = [x \in (DOMAIN data.m) \cup {a} |-> IF x = a THEN v ELSE data.m[x]]]

\* the new RAM block is sim.rams[Len(sim.rams)]; its 16 output nodes follow
grci_ram64k_new(sim, garbage) ==
    Fold(LAMBDA s, i:
            Then(grci_ram64kout_new(s, Len(s.rams)),
                 LAMBDA s1: [s1 EXCEPT !.rams[Len(s1.rams)].outputs[i + 1] = s1.node_count]),
         [sim EXCEPT !.rams = Append(@, [inputs |-> [i \in 1..16 |-> NULL],
                                         load |-> NULL,
                                         addrs |-> [i \in 1..16 |-> NULL],
                                         data |-> RamData(garbage),
                                         outputs |-> [i \in 1..16 |-> NULL]])],
         16)

\* grci_set_module_inputs: connect the inputs of an instantiated part.  psinks
\* are the sink sets of the enclosing instance, extended by EXTERNAL inputs.
grci_set_module_inputs(sim, psinks, api, inputs) ==
    LET one(acc, ins, i, j) ==
            IF ins[i + 1].type = "EXTERNAL"
            THEN [acc EXCEPT !.sinks[ins[i + 1].sink + 1] = Append(@, api.sinks[i + 1][j + 1])]
            ELSE [acc EXCEPT !.sim = SetSlot(acc.sim, api.sinks[i + 1][j + 1], ins[i + 1].obj)]
    IN Then(inputs, LAMBDA ins:
            Fold(LAMBDA acc, i:
                    Fold(LAMBDA a2, j: one(a2, ins, i, j), acc,
                         module_defs[api.desc].sink_counts[i + 1]),
                 [sim |-> sim, sinks |-> psinks], module_defs[api.desc].input_count))

\* struct grci_module of an instance
Api(d, sinks, outputs, dff_off_len) ==
    [desc |-> d, sinks |-> sinks, outputs |-> outputs, dff_off_len |-> dff_off_len]

RECURSIVE grci_make_module(_, _, _)

\* the loop of grci_make_module over data->parts: instantiate each part and
\* record the range of the DFF list it filled
MakeParts(sim, data, garbage) ==
    Fold(LAMBDA acc, i:
            Then(grci_make_module(acc.sim, data.parts[i + 1], garbage),
                 LAMBDA r: [sim |-> r.sim,
                            apis |-> Append(acc.apis, r.api),
                            dff_off_len |-> Append(acc.dff_off_len,
                                                   <<acc.sim.dff_node_count,
                                                     r.sim.dff_node_count - acc.sim.dff_node_count>>)]),
         [sim |-> sim, apis |-> <<>>, dff_off_len |-> <<>>],
         Len(data.parts))

\* the inputs grci_make_module hands to grci_set_module_inputs for one part
PartInputs(data, kids, sim, part_idx) ==
    [i \in 1..Len(data.part_connections[part_idx + 1]) |->
        LET c == data.part_connections[part_idx + 1][i] IN
        CASE c.type = "EXTERNAL" ->
                 [type |-> "EXTERNAL", sink |-> c.parameter_idx, obj |-> NULL]
          [] c.type = "INTERNAL" ->
                 [type |-> "INTERNAL", sink |-> 0,
                  obj |-> kids.apis[c.idx + 1].outputs[c.output_idx + 1]]
          [] c.type = "CONSTANT" ->
                 [type |-> "CONSTANT", sink |-> 0,
                  obj |-> IF c.constant THEN sim.const1 ELSE sim.const0]
          [] c.type = "CLOCK" ->
                 [type |-> "CLOCK", sink |-> 0, obj |-> sim.clock]]

\* grci_make_module for a description that is none of the built-ins: wire the
\* parts, then collect the output nodes
MakeComposite(d, data, kids) ==
    Then(Fold(LAMBDA acc, p:
                 grci_set_module_inputs(acc.sim, acc.sinks, kids.apis[p + 1],
                                        PartInputs(data, kids, acc.sim, p)),
              [sim |-> kids.sim, sinks |-> [i \in 1..data.input_count |-> <<>>]],
              Len(data.parts)),
         LAMBDA wired:
            [sim |-> wired.sim,
             api |-> Api(d, wired.sinks,
                         [i \in 1..data.output_count |->
                             CASE data.outputs[i].idx = GRCI_OUTPUT_0 -> wired.sim.const0
                               [] data.outputs[i].idx = GRCI_OUTPUT_1 -> wired.sim.const1
                               [] OTHER -> kids.apis[data.outputs[i].idx + 1].outputs[data.outputs[i].output_idx + 1]],
                         kids.dff_off_len)])

\* grci_make_module for the three built-ins
MakeBuiltin(d, data, kids, garbage) ==
    IF data.is_nand THEN
        Then(grci_nand_new(kids.sim),
             LAMBDA s1: [sim |-> s1,
                         api |-> Api(d, << <<Slot("a", s1.node_count, 0)>>, <<Slot("b", s1.node_count, 0)>> >>,
                                     <<s1.node_count>>, kids.dff_off_len)])
    ELSE IF data.is_dff THEN
        Then(grci_dff_new(kids.sim),
             LAMBDA s1: [sim |-> s1,
                         api |-> Api(d, << <<Slot("input", s1.node_count, 0)>> >>,
                                     <<s1.node_count>>, kids.dff_off_len)])
    ELSE
        Then(grci_ram64k_new(kids.sim, garbage),
             LAMBDA s1: [sim |-> s1,
                         api |-> Api(d, [i \in 1..33 |->
                                            IF i <= 16 THEN <<Slot("ram_inputs", Len(s1.rams), i - 1)>>
                                            ELSE IF i = 17 THEN <<Slot("ram_load", Len(s1.rams), 0)>>
                                            ELSE <<Slot("ram_addrs", Len(s1.rams), i - 18)>>],
                                     s1.rams[Len(s1.rams)].outputs, kids.dff_off_len)])

\* grci_make_module: instantiate description d (an index of module_defs) and,
\* recursively, its parts.  Returns the simulator and the instance.
grci_make_module(sim, d, garbage) ==
    Then(module_defs[d], LAMBDA data:
    Then(MakeParts(sim, data, garbage), LAMBDA kids:
        IF data.is_nand \/ data.is_dff \/ data.is_ram64K
        THEN MakeBuiltin(d, data, kids, garbage)
        ELSE MakeComposite(d, data, kids)))

\* grci_simulator_init with a node array that has no room for const0, const1
\* and the clock
grci_simulator_init_no_shared(node_count, dff_count) ==
    Fold(LAMBDA s, i: grci_constant_new(s, i > 0),
         [nodes |-> <<>>, node_count |-> 0, node_cap |-> node_count,
          dff_nodes |-> <<>>, dff_node_count |-> 0, dff_cap |-> dff_count,
          rams |-> <<>>, const0 |-> 1, const1 |-> 2, clock |-> 3,
          overrun |-> FALSE, crashed |-> FALSE, oobv |-> Retained,
          stores |-> {}, touched |-> {}],
         3)

\* grci_simulator_init: the node array holds node_count + 3 nodes; const0, const1
\* and the clock (initially 1) are nodes 1, 2 and 3.
grci_simulator_init(node_count, dff_count) ==
    Fold(LAMBDA s, i: grci_constant_new(s, i > 0),
         [nodes |-> <<>>, node_count |-> 0, node_cap |-> node_count + 3,
          dff_nodes |-> <<>>, dff_node_count |-> 0, dff_cap |-> dff_count,
          rams |-> <<>>, const0 |-> 1, const1 |-> 2, clock |-> 3,
          overrun |-> FALSE, crashed |-> FALSE, oobv |-> Retained,
          stores |-> {}, touched |-> {}],
         3)

\* A state buffer (bool *states).  For a Ram64K part it has 524288 elements and
\* is kept sparse like the store: m maps a byte index j to the eight elements
\* j*8 .. j*8+7, and every element outside m is FALSE after the memset of
\* grci_init_module.  For any other part it is the sequence of its booleans.
ZeroStates(is_ram, state_count) ==
    IF is_ram THEN [ram |-> TRUE, m |-> <<>>, seq |-> <<>>]
    ELSE [ram |-> FALSE, m |-> <<>>, seq |-> [i \in 1..state_count |-> FALSE]]

\* the submodule handles of grci_init_module, one per part
Submodules(decl, dff_off_len) ==
    [i \in 1..Len(decl.parts) |->
        LET is_ram == module_defs[decl.parts[i]].name = "Ram64K"
        IN [state_count |-> IF is_ram THEN GRCI_RAM64K_STATE_COUNT ELSE dff_off_len[i][2],
            states |-> ZeroStates(is_ram, dff_off_len[i][2])]]

\* grci_init_module: the instance of module_defs[d] right after construction.
grci_init_module(d, garbage) ==
    Then(module_defs[d], LAMBDA decl:
    Then(grci_simulator_init(decl.node_count + decl.input_count, decl.dff_count), LAMBDA s0:
    Then(grci_make_module(s0, d, garbage), LAMBDA made:
    Then(Fold(LAMBDA acc, i:
                 Then(grci_constant_new(acc.sim, FALSE),
                      LAMBDA s1: [sim |-> s1, inputs |-> Append(acc.inputs, s1.node_count)]),
              [sim |-> made.sim, inputs |-> <<>>], decl.input_count), LAMBDA withIn:
    Then(grci_set_module_inputs(withIn.sim, <<>>, made.api,
                                [i \in 1..decl.input_count |->
                                    [type |-> "INTERNAL", sink |-> 0, obj |-> withIn.inputs[i]]]),
         LAMBDA conn:
            [sim |-> conn.sim,
             module |-> [desc |-> d, inputs |-> withIn.inputs, outputs |-> made.api.outputs,
                         submodules |-> Submodules(decl, made.api.dff_off_len),
                         dff_off_len |-> made.api.dff_off_len],
             inputs |-> [i \in 1..decl.input_count |-> FALSE],
             outputs |-> [i \in 1..decl.output_count |-> FALSE]])))))

\* ---------------------------------------------------------------------------
\* Evaluation
\* ---------------------------------------------------------------------------
\* The tail shared by both RAM64KOUT cases: int output = *((int*) &ram->data[addr])
\* (little-endian host: bits 0..15 are bytes addr and addr + 1; four bytes are
\* read), then every output node of the RAM is marked visited and given its bit.
RamRead(sim, r, addr) ==
    Then(ReadByte(sim, r, addr) + 256 * ReadByte(sim, r, addr + 1), LAMBDA output:
        Fold(LAMBDA s, i:
                [s EXCEPT !.nodes[s.rams[r].outputs[i + 1]].visited = TRUE,
                          !.nodes[s.rams[r].outputs[i + 1]].cached_state = (BitOf(output, i) = 1)],
             [sim EXCEPT !.touched = @ \cup {[ram |-> r, byte |-> addr + k] : k \in 0..3}],
             16))

\* ram->data[addr] = input1; ram->data[addr + 1] = input2;
RamStore(sim, r, addr, input1, input2) ==
    [sim EXCEPT !.rams[r].data = PutByte(PutByte(@, addr, input1), addr + 1, input2),
                !.stores = @ \cup {[ram |-> r, addr |-> addr, input1 |-> input1, input2 |-> input2]},
                !.touched = @ \cup {[ram |-> r, byte |-> addr], [ram |-> r, byte |-> addr + 1]}]

\* the result of either evaluation function: the simulator after the call and
\* the value returned
Ret(sim, v) == [sim |-> sim, v |-> v]

\* Visited without the test for GRCI_NT_DFF: a visited DFF answers with the value
\* just computed for it
VisitedCached(sim, n) == Ret(sim, sim.nodes[n].cached_state)

\* the start of both evaluation functions: a visited node answers from its
\* stored state
Visited(sim, n) ==
    Ret(sim, IF sim.nodes[n].type = "DFF" THEN sim.nodes[n].last_state
             ELSE sim.nodes[n].cached_state)

RECURSIVE grci_eval_dff(_, _, _)

\* case GRCI_NT_NAND of grci_eval_dff
EvalDffNand(s1, n) ==
    Then(grci_eval_dff(s1, s1.nodes[n].a, FALSE), LAMBDA left:
    Then(grci_eval_dff(left.sim, s1.nodes[n].b, FALSE), LAMBDA right:
        Ret([right.sim EXCEPT !.nodes[n].cached_state = ~(left.v /\ right.v)],
            ~(left.v /\ right.v))))

\* case GRCI_NT_RAM64KOUT of grci_eval_dff
EvalDffRam(s1, n, r) ==
    Then(grci_eval_dff(s1, s1.rams[r].load, FALSE), LAMBDA load:
    Then(Fold(LAMBDA a, i:
                 Then(grci_eval_dff(a.sim, a.sim.rams[r].inputs[i + 1], FALSE), LAMBDA in:
                 Then(grci_eval_dff(in.sim, in.sim.rams[r].addrs[i + 1], FALSE), LAMBDA ad:
                     [sim |-> ad.sim,
                      input1 |-> IF i < 8 THEN a.input1 + B2N(in.v) * 2 ^ i ELSE a.input1,
                      input2 |-> IF i < 8 THEN a.input2 ELSE a.input2 + B2N(in.v) * 2 ^ (i - 8),
                      addr |-> a.addr + B2N(ad.v) * 2 ^ i])),
              [sim |-> load.sim, input1 |-> 0, input2 |-> 0, addr |-> 0], 16), LAMBDA acc:
    Then(IF load.v THEN RamStore(acc.sim, r, acc.addr, acc.input1, acc.input2) ELSE acc.sim,
         LAMBDA s2:
    Then(RamRead(s2, r, acc.addr), LAMBDA s3: Ret(s3, s3.nodes[n].cached_state)))))

\* grci_eval_dff(node, root)
grci_eval_dff(sim, n, root) ==
    IF n = NULL THEN Ret([sim EXCEPT !.crashed = TRUE], FALSE)
    ELSE IF sim.nodes[n].visited THEN Visited(sim, n)
    ELSE Then([sim EXCEPT !.nodes[n].visited = TRUE], LAMBDA s1:
        CASE s1.nodes[n].type = "CONSTANT" ->
                Ret([s1 EXCEPT !.nodes[n].cached_state = s1.nodes[n].constant],
                    s1.nodes[n].constant)
          [] s1.nodes[n].type = "NAND" -> EvalDffNand(s1, n)
          [] s1.nodes[n].type = "DFF" ->
                IF ~root THEN Ret(s1, s1.nodes[n].cached_state)
                ELSE Then(grci_eval_dff(s1, s1.nodes[n].input, FALSE), LAMBDA in:
                          Ret([in.sim EXCEPT !.nodes[n].cached_state = in.v], in.v))
          [] s1.nodes[n].type = "RAM64KOUT" -> EvalDffRam(s1, n, s1.nodes[n].ram))

RECURSIVE grci_eval_node(_, _)

\* EvalNodeNand with the negation of node->cached_state = !(left && right) left out
EvalNodeNandNoNegation(s1, n) ==
    Then(grci_eval_node(s1, s1.nodes[n].a), LAMBDA left:
    Then(grci_eval_node(left.sim, s1.nodes[n].b), LAMBDA right:
        Ret([right.sim EXCEPT !.nodes[n].cached_state = left.v /\ right.v],
            left.v /\ right.v)))

\* case GRCI_NT_NAND of grci_eval_node
EvalNodeNand(s1, n) ==
    Then(grci_eval_node(s1, s1.nodes[n].a), LAMBDA left:
    Then(grci_eval_node(left.sim, s1.nodes[n].b), LAMBDA right:
        Ret([right.sim EXCEPT !.nodes[n].cached_state = ~(left.v /\ right.v)],
            ~(left.v /\ right.v))))

\* case GRCI_NT_RAM64KOUT of grci_eval_node: the address bits are evaluated
\* with grci_eval_dff
EvalNodeRam(s1, n, r) ==
    Then(Fold(LAMBDA a, i:
                 Then(grci_eval_dff(a.sim, a.sim.rams[r].addrs[i + 1], FALSE), LAMBDA ad:
                     [sim |-> ad.sim, addr |-> a.addr + B2N(ad.v) * 2 ^ i]),
              [sim |-> s1, addr |-> 0], 16), LAMBDA acc:
    Then(RamRead(acc.sim, r, acc.addr), LAMBDA s3: Ret(s3, s3.nodes[n].cached_state)))

\* grci_eval_node(node)
grci_eval_node(sim, n) ==
    IF n = NULL THEN Ret([sim EXCEPT !.crashed = TRUE], FALSE)
    ELSE IF sim.nodes[n].visited THEN Visited(sim, n)
    ELSE Then([sim EXCEPT !.nodes[n].visited = TRUE], LAMBDA s1:
        CASE s1.nodes[n].type = "CONSTANT" ->
                Ret([s1 EXCEPT !.nodes[n].cached_state = s1.nodes[n].constant],
                    s1.nodes[n].constant)
          [] s1.nodes[n].type = "NAND" -> EvalNodeNand(s1, n)
          [] s1.nodes[n].type = "DFF" -> Ret(s1, s1.nodes[n].cached_state)
          [] s1.nodes[n].type = "RAM64KOUT" -> EvalNodeRam(s1, n, s1.nodes[n].ram))

\* ---------------------------------------------------------------------------
\* grci_step_module
\* ---------------------------------------------------------------------------
\* PackByte with the shift taken as 7 - i: element j*8 is the top bit of the byte
PackByteMsbFirst(bits) == Fold(LAMBDA c, i: c + B2N(bits[i + 1]) * 2 ^ (7 - i), 0, 8)

\* char c = 0; c |= states[j*8 + i] << i for i = 0..7; ram->data[j] = c
PackByte(bits) == Fold(LAMBDA c, i: c + B2N(bits[i + 1]) * 2 ^ i, 0, 8)

\* sub->states[j*8 + i] = (ram->data[j] >> i) & 1 for i = 0..7
UnpackByte(c) == [i \in 1..8 |-> BitOf(c, i - 1) = 1]

\* the load loop over all 524288 elements: every byte of the store is rewritten
LoadRamStates(data, states) ==
    [data EXCEPT !.def = 0,
                 !.m = [j \in {k \in DOMAIN states.m : PackByte(states.m[k]) # 0} |->
                           PackByte(states.m[j])]]

\* the snapshot loop over all 524288 elements
SnapshotRamStates(data) ==
    [ram |-> TRUE, seq |-> <<>>,
     m |-> IF data.def = 0
           THEN [j \in {k \in DOMAIN data.m : data.m[k] # 0} |-> UnpackByte(data.m[j])]
           ELSE [j \in 0..(RamBytes - 1) |->
                    IF j \in DOMAIN data.m THEN UnpackByte(data.m[j]) ELSE UnpackByte(data.def)]]

\* "set module inputs": m->sim->module.inputs[i]->as.constant = m->inputs[i]
StepSetInputs(inst) ==
    Fold(LAMBDA s, i: [s EXCEPT !.nodes[inst.module.inputs[i + 1]].constant = inst.inputs[i + 1]],
         inst.sim, Len(inst.inputs))

IsNamed(inst, i) == module_defs[inst.module.desc].part_names[i + 1] # NoName

IsRamPart(inst, i) == module_defs[module_defs[inst.module.desc].parts[i + 1]].name = "Ram64K"

\* the RAM block behind part i: dff_nodes[dff_off]->as.ram64Kout.ram
RamOfPart(inst, sim, i) == sim.nodes[sim.dff_nodes[inst.module.dff_off_len[i + 1][1] + 1]].ram

\* StepLoadStates with dff_nodes[j] in place of dff_nodes[j + dff_off]
StepLoadStatesNoOffset(inst, sim) ==
    Fold(LAMBDA s, i:
            IF ~IsNamed(inst, i) THEN s
            ELSE IF IsRamPart(inst, i)
            THEN [s EXCEPT !.rams[RamOfPart(inst, s, i)].data =
                               LoadRamStates(@, inst.module.submodules[i + 1].states)]
            ELSE Fold(LAMBDA s2, j:
                         LET k == s2.dff_nodes[j + 1]
                             b == inst.module.submodules[i + 1].states.seq[j + 1]
                         IN [s2 EXCEPT !.nodes[k].last_state = b, !.nodes[k].cached_state = b],
                      s, inst.module.dff_off_len[i + 1][2]),
         sim, Len(inst.module.submodules))

\* first "set submodule states" loop: state buffers -> last_state / RAM bytes
StepLoadStates(inst, sim) ==
    Fold(LAMBDA s, i:
            IF ~IsNamed(inst, i) THEN s
            ELSE IF IsRamPart(inst, i)
            THEN [s EXCEPT !.rams[RamOfPart(inst, s, i)].data =
                               LoadRamStates(@, inst.module.submodules[i + 1].states)]
            ELSE Fold(LAMBDA s2, j:
                         LET k == s2.dff_nodes[j + inst.module.dff_off_len[i + 1][1] + 1]
                             b == inst.module.submodules[i + 1].states.seq[j + 1]
                         IN [s2 EXCEPT !.nodes[k].last_state = b, !.nodes[k].cached_state = b],
                      s, inst.module.dff_off_len[i + 1][2]),
         sim, Len(inst.module.submodules))

\* StepToggleClock with the two arms of the conditional swapped: the level is kept
StepToggleClockSwapped(sim) == [sim EXCEPT !.nodes[sim.clock].constant = @]

\* sim->clock->as.constant = sim->clock->as.constant == 0 ? 1 : 0
StepToggleClock(sim) == [sim EXCEPT !.nodes[sim.clock].constant = ~@]

\* for (k = 0; k < sim->node_count; k++) sim->nodes[k].visited = false
ClearVisited(sim) ==
    [sim EXCEPT !.nodes = [k \in 1..Len(@) |-> [@[k] EXCEPT !.visited = FALSE]]]

\* ClearVisitedNonDff without the test of the node type: DFF nodes are cleared too
ClearVisitedAll(sim) ==
    [sim EXCEPT !.nodes = [k \in 1..Len(@) |-> [@[k] EXCEPT !.visited = FALSE]]]

\* the inner loop of the DFF pass: DFF nodes keep their visited flag
ClearVisitedNonDff(sim) ==
    [sim EXCEPT !.nodes = [k \in 1..Len(@) |->
                              IF @[k].type # "DFF" THEN [@[k] EXCEPT !.visited = FALSE]
                              ELSE @[k]]]

\* the first loop of the rising-edge pass: evaluate every entry of the DFF
\* list as root
StepEvalDffs(sim) ==
    Fold(LAMBDA s, k:
            Then(grci_eval_dff([s EXCEPT !.nodes[s.dff_nodes[k + 1]].visited = FALSE],
                               s.dff_nodes[k + 1], TRUE),
                 LAMBDA r: ClearVisitedNonDff(r.sim)),
         sim, sim.dff_node_count)

\* StepCommitDffs with the loop started at k = 1: the first entry is left out
StepCommitDffsFromSecond(sim) ==
    Fold(LAMBDA s, k:
            IF k = 0 THEN s
            ELSE [s EXCEPT !.nodes[s.dff_nodes[k + 1]].last_state = s.nodes[s.dff_nodes[k + 1]].cached_state],
         sim, sim.dff_node_count)

\* the second loop: last_state = cached_state for every entry of the DFF list
StepCommitDffs(sim) ==
    Fold(LAMBDA s, k:
            [s EXCEPT !.nodes[s.dff_nodes[k + 1]].last_state = s.nodes[s.dff_nodes[k + 1]].cached_state],
         sim, sim.dff_node_count)

\* the two loops of the rising-edge pass
StepDffPass(sim) == Then(StepEvalDffs(sim), StepCommitDffs)

\* StepClockedPass without the test of the clock level: the pass runs on both edges
StepClockedPassBothEdges(sim) == StepDffPass(sim)

\* if (sim->clock->as.constant) { ... }: the pass runs only when the clock is high
StepClockedPass(sim) == IF sim.nodes[sim.clock].constant THEN StepDffPass(sim) ELSE sim

\* m->outputs[k] = grci_eval_node(m->sim->module.outputs[k])
StepEvalOutputs(inst, sim) ==
    Fold(LAMBDA acc, k:
            Then(grci_eval_node(acc.sim, inst.module.outputs[k + 1]),
                 LAMBDA r: [sim |-> r.sim, outputs |-> [acc.outputs EXCEPT ![k + 1] = r.v]]),
         [sim |-> sim, outputs |-> inst.outputs], Len(inst.module.outputs))

\* StepSnapshotStates with dff_nodes[j] in place of dff_nodes[j + dff_off]
StepSnapshotStatesNoOffset(inst, sim) ==
    [i \in 1..Len(inst.module.submodules) |->
        LET sub == inst.module.submodules[i]
            dff_len == inst.module.dff_off_len[i][2]
        IN IF ~IsNamed(inst, i - 1) THEN sub
           ELSE IF IsRamPart(inst, i - 1)
           THEN [sub EXCEPT !.states = SnapshotRamStates(sim.rams[RamOfPart(inst, sim, i - 1)].data)]
           ELSE [sub EXCEPT !.states.seq =
                    [j \in 1..Len(sub.states.seq) |->
                        IF j <= dff_len THEN sim.nodes[sim.dff_nodes[j]].last_state
                        ELSE sub.states.seq[j]]]]

\* second "set submodule states" loop: last_state / RAM bytes -> state buffers
StepSnapshotStates(inst, sim) ==
    [i \in 1..Len(inst.module.submodules) |->
        LET sub == inst.module.submodules[i]
            dff_off == inst.module.dff_off_len[i][1]
            dff_len == inst.module.dff_off_len[i][2]
        IN IF ~IsNamed(inst, i - 1) THEN sub
           ELSE IF IsRamPart(inst, i - 1)
           THEN [sub EXCEPT !.states = SnapshotRamStates(sim.rams[RamOfPart(inst, sim, i - 1)].data)]
           ELSE [sub EXCEPT !.states.seq =
                    [j \in 1..Len(sub.states.seq) |->
                        IF j <= dff_len THEN sim.nodes[sim.dff_nodes[j - 1 + dff_off + 1]].last_state
                        ELSE sub.states.seq[j]]]]

\* sim->clock->as.constant
ClockOf(sim) == sim.nodes[sim.clock].constant

\* grci_step_module from the toggle of the clock to its end
StepAfterLoad(inst, s1) ==
    Then(StepToggleClock(s1), LAMBDA t:
    Then(ClearVisited(t), LAMBDA s2:
    Then(StepClockedPass(s2), LAMBDA s3:
    Then(StepEvalOutputs(inst, s3), LAMBDA ev:
        [inst EXCEPT !.sim = ev.sim,
                     !.outputs = ev.outputs,
                     !.module.submodules = StepSnapshotStates(inst, ev.sim)]))))

\* The whole of grci_step_module.  oobv is the bit pattern a read past the end
\* of a RAM store yields during this step.
grci_step_module(inst, oobv) ==
    Then([StepSetInputs(inst) EXCEPT !.oobv = oobv, !.stores = {}, !.touched = {}], LAMBDA s0:
    Then(StepLoadStates(inst, s0), LAMBDA s1: StepAfterLoad(inst, s1)))

\* ---------------------------------------------------------------------------
\* The caller: which module is instantiated, the input vectors it sets and the
\* state-buffer elements it writes between steps
\* ---------------------------------------------------------------------------
LogicTops == {iNand, iAnd, iRegister, iSeq3, iNest}

RamTops == {iMem, iMemU}

ChainTops == {iMemChain}

\* what the allocator may hand out for a RAM store, and what a byte past the
\* end of a store may read as
GarbageBytes == {0, 165}
OobBytes == {Retained, 255}

AddrChoices == {0, 65535}
DataChoices == {258}

\* the 33 inputs of Mem, MemU and MemChain: in[16], load, addr[16]
RamVector(N, load, A) ==
    [i \in 1..33 |-> IF i <= 16 THEN BitOf(N, i - 1) = 1
                     ELSE IF i = 17 THEN load
                     ELSE BitOf(A, i - 18) = 1]

\* the 9 inputs of Register: in[8], load
RegVector(N, load) ==
    [i \in 1..(RegisterWidth + 1) |-> IF i <= RegisterWidth THEN BitOf(N, i - 1) = 1 ELSE load]

InputChoices(d) ==
    IF d \in RamTops \cup ChainTops
    THEN {RamVector(N, TRUE, A) : N \in DataChoices, A \in AddrChoices}
         \cup {RamVector(0, FALSE, A) : A \in AddrChoices}
    ELSE IF d = iRegister
    THEN {RegVector(5, FALSE), RegVector(5, TRUE), RegVector(0, TRUE)}
    ELSE [1..module_defs[d].input_count -> BOOLEAN]

\* elements of a Ram64K state buffer the caller writes
RamStateWrites == {524287}

\* ---------------------------------------------------------------------------
\* The compiler: error buffer, symbol table, parsing of a module body, width
\* inference, lowering and registration (grci_compiler_compile_module and
\* grci_compile_src).
\*
\* A source text is held as the tokenizer and the grammar deliver it when every
\* expected token is present: a sequence of items, each a module text (name,
\* parameters, outputs, body statements) or a token that does not start a
\* module.  The position in the token stream is kept as far as the code
\* depends on it: whether the token after the point where grci_compile_part_list
\* returns is the closing brace of the body.
\* ---------------------------------------------------------------------------
GRCI_MAX_PARTS == 64
GRCI_MAX_WIRES == 32
GRCI_MAX_INPUTS == 160
GRCI_MAX_OUTPUTS == 128
GRCI_MAX_MODULES == 64
GRCI_UNKNOWN_WIDTH == 0

\* grci_err_buf[0] == '\0'
NoError == ""

grci_err_prefix(type) ==
    CASE type = "GRCI_ERR_COMP" -> "GRCI compilation error [near line N]: "
      [] type = "GRCI_ERR_SIM" -> "GRCI simulation error: "
      [] type = "GRCI_ERR_MEM" -> "GRCI memory allocation error: "
      [] type = "GRCI_ERR_INTERN" -> "GRCI internal error: "

\* A status with the context it leaves: ok is GRCI_OK / GRCI_ERR
OK(c) == [ok |-> TRUE, c |-> c]
ERR(c) == [ok |-> FALSE, c |-> c]

\* the body of grci_ensure once the condition is false: the message is written
\* only into an empty buffer.  c.cause keeps the message of the first check that
\* failed during the current public call, written or not, c.type its error
\* type, and c.fails counts the checks that failed.
Raise(c, type, fmt) ==
    [c EXCEPT !.err = IF @ = NoError THEN grci_err_prefix(type) \o fmt ELSE @,
              !.cause = IF @ = NoError THEN grci_err_prefix(type) \o fmt ELSE @,
              !.type = IF c.cause = NoError THEN type ELSE @,
              !.fails = @ + 1]

\* grci_ensure(cond, type, line, fmt): GRCI_ERR is returned to the caller
grci_ensure(c, cond, type, fmt) == IF cond THEN OK(c) ELSE ERR(Raise(c, type, fmt))

\* grci_ensure_retnull(cond, type, line, fmt): the return sits inside the test
\* of the buffer, so with a message already in the buffer nothing is written
\* and nothing is returned (ok then means "fell through")
grci_ensure_retnull(c, cond, type, fmt) ==
    IF cond THEN OK(c)
    ELSE IF c.err = NoError THEN ERR(Raise(c, type, fmt))
    ELSE OK([c EXCEPT !.cause = IF @ = NoError THEN grci_err_prefix(type) \o fmt ELSE @,
                      !.type = IF c.cause = NoError THEN type ELSE @,
                      !.fails = @ + 1])

\* r = f(...); if (!r) return GRCI_ERR; k(context)      (x is evaluated once)
Try(x, k(_)) == CHOOSE res \in {IF r.ok THEN k(r.c) ELSE r : r \in {x}} : TRUE

\* f(...); k(context)     the status of the call is not looked at
Ignore(x, k(_)) == CHOOSE res \in {k(r.c) : r \in {x}} : TRUE

\* for (i = from; i < n; i++) { if (!body(i)) return GRCI_ERR; }
\* (the iterations i..n-1 in order, as the first half followed by the second)
RECURSIVE LoopFrom(_, _, _, _)
LoopFrom(body(_, _), r, i, n) ==
    IF i >= n \/ ~r.ok THEN r
    ELSE IF n - i = 1 THEN body(r.c, i)
    ELSE CHOOSE res \in {LoopFrom(body, y, (i + n) \div 2, n) :
                             y \in {LoopFrom(body, r, i, (i + n) \div 2)}} : TRUE

Loop(body(_, _), c, n) == CHOOSE res \in {LoopFrom(body, r, 0, n) : r \in {OK(c)}} : TRUE

\* struct grci_symbol_entry; type is the token type
Entry(token, type, offset, width) == [token |-> token, type |-> type, offset |-> offset, width |-> width]

\* (struct grci_symbol_entry) {}
EmptyEntry == Entry("", "NONE", 0, 0)

\* grci_symbol_list_idx: index of the first entry with that literal, -1 if none
grci_symbol_list_idx(list, token) ==
    IF \E i \in 1..Len(list) : list[i].token = token
    THEN (CHOOSE i \in 1..Len(list) :
             list[i].token = token /\ \A j \in 1..(i - 1) : list[j].token # token) - 1
    ELSE -1

grci_absolute_offset(list, end_idx) == Fold(LAMBDA off, i: off + list[i + 1].width, 0, end_idx)

\* grci_symbol_table_init
grci_symbol_table_init ==
    [interface |-> [inputs |-> <<>>, outputs |-> <<>>],
     parts |-> [inputs |-> <<>>, outputs |-> <<>>, count |-> 0],
     wires |-> [inputs |-> <<>>, outputs |-> <<>>, count |-> 0]]

\* grci_module_desc_init: the members it sets; outputs, parts, the widths and the
\* sink counts are left as the stack holds them
grci_module_desc_init ==
    [name |-> NoName, parts |-> <<>>, part_names |-> <<>>, part_connections |-> <<>>,
     part_count |-> 0, input_count |-> 0, input_param_count |-> 0,
     outputs |-> <<>>, output_count |-> 0, output_param_count |-> 0,
     input_widths |-> <<>>, output_widths |-> <<>>,
     is_nand |-> FALSE, is_dff |-> FALSE, is_ram64K |-> FALSE,
     sink_counts |-> <<>>, node_count |-> 0, dff_count |-> 0]

\* Source texts ---------------------------------------------------------------
\* expressions: identifier, identifier[n..m], integer literal, {e, ...}
Id(name) == [kind |-> "expr", token |-> name, type |-> "IDENTIFIER", sliced |-> FALSE, n |-> 0, m |-> 0]
Slice(name, n, m) == [kind |-> "expr", token |-> name, type |-> "IDENTIFIER", sliced |-> TRUE, n |-> n, m |-> m]
Lit(text) == [kind |-> "expr", token |-> text, type |-> "INT_LITERAL", sliced |-> FALSE, n |-> 0, m |-> 0]
Anon(items) == [kind |-> "anon", items |-> items]

\* name: module(args) -> results        (name is NoName when there is no label)
PartStmt(name, module, args, results) ==
    [kind |-> "part", name |-> name, module |-> module, args |-> args, results |-> results]

\* name: module      with nothing after the module name but the next token of
\* the body (the text of a part statement that stops at its module name)
PartHead(name, module) ==
    [kind |-> "part", name |-> name, module |-> module, args |-> <<>>, results |-> <<>>, head |-> TRUE]

\* {inputs} -> output     or     input -> output
WireStmt(binding, inputs, output) ==
    [kind |-> "wire", binding |-> binding, inputs |-> inputs, output |-> output]

\* a parameter or an output of a module declaration: name or name[width]
Param(name, width) == [token |-> name, width |-> width]

\* module name(inputs) -> outputs { body }
ModuleText(name, inputs, outputs, body) ==
    [kind |-> "module", name |-> name, inputs |-> inputs, outputs |-> outputs, body |-> body]

\* a token at top level that is not the keyword module
StrayToken == [kind |-> "stray"]

\* Parsing -------------------------------------------------------------------
\* compile_expr: the symbol of an identifier or literal with its optional slice
compile_expr(e) ==
    Entry(e.token, e.type,
          IF e.sliced THEN e.n ELSE 0,
          IF e.sliced THEN e.m - e.n + 1 ELSE GRCI_UNKNOWN_WIDTH)

\* wire_idx = symbols->wires.count; symbols->wires.count++;  The list
\* wires.inputs[wire_idx] is then written: c.oob records a write at or past
\* wires.inputs[GRCI_MAX_WIRES], the end of the array.
NewWire(c) ==
    [c EXCEPT !.sym.wires.count = @ + 1,
              !.sym.wires.inputs = Append(@, <<>>),
              !.oob = @ \/ (c.sym.wires.count >= GRCI_MAX_WIRES),
              !.out = <<>>]

\* the identifier "_<id>_" made for an anonymous wire
AnonToken(id) == "_" \o ToString(id) \o "_"

\* compile_expr_list: the symbols of a comma-separated list are left in c.out;
\* each {..} item becomes a wire of its own
RECURSIVE compile_expr_list(_, _)
compile_expr_list(c, exprs) ==
    Try(grci_ensure(c, Len(exprs) > 0, "GRCI_ERR_COMP", "Internal parts must be other modules or wires"),
        LAMBDA c0:
          Loop(LAMBDA cc, i:
                 IF exprs[i + 1].kind = "expr"
                 THEN OK([cc EXCEPT !.out = Append(@, compile_expr(exprs[i + 1]))])
                 ELSE Ignore(compile_expr_list(NewWire(cc), exprs[i + 1].items),
                             LAMBDA c2:
                               OK([c2 EXCEPT
                                     !.sym.wires.inputs[cc.sym.wires.count + 1] = c2.out,
                                     !.id_counter = @ + 1,
                                     !.sym.wires.outputs =
                                         Append(@, Entry(AnonToken(c2.id_counter + 1), "IDENTIFIER",
                                                         0, GRCI_UNKNOWN_WIDTH)),
                                     !.out = Append(cc.out,
                                                    Entry(AnonToken(c2.id_counter + 1), "IDENTIFIER",
                                                          0, GRCI_UNKNOWN_WIDTH))])),
               [c0 EXCEPT !.out = <<>>], Len(exprs)))

\* get_part_by_name over the names given so far
get_part_by_name(part_names, name) == \E i \in 1..Len(part_names) : part_names[i] = name

\* grci_compile_part_list, one part:  name: module(args) -> results
\* When the module is not found the token after its name is still unread, so
\* for a statement that stops at the name it is the brace closing the body.
CompilePart(c, s, last) ==
    Try(IF s.name = NoName THEN OK(c)
        ELSE Try(grci_ensure(c, ~get_part_by_name(c.decl.part_names, s.name), "GRCI_ERR_COMP",
                             "Part name already exsists in this module"),
                 LAMBDA c1: OK([c1 EXCEPT !.decl.part_names[c.sym.parts.count] = s.name])),
      LAMBDA c2:
        Try(Then(grci_ensure(c2, grci_module_desc_list_get(c2.defs, s.module) # NULL, "GRCI_ERR_COMP",
                             "Attempting to use nonexistent module"),
                 LAMBDA r: IF r.ok THEN grci_ensure(r.c, "head" \notin DOMAIN s, "GRCI_ERR_COMP", "Expected '('")
                           ELSE ERR([r.c EXCEPT !.at_close = last /\ "head" \in DOMAIN s])),
          LAMBDA c3:
            Try(IF Len(s.args) = 0 THEN OK([c3 EXCEPT !.out = <<>>]) ELSE compile_expr_list(c3, s.args),
              LAMBDA c4:
                Try(grci_ensure([c4 EXCEPT !.decl.parts[c.sym.parts.count] =
                                               grci_module_desc_list_get(c2.defs, s.module),
                                           !.sym.parts.inputs[c.sym.parts.count] = c4.out],
                                Len(c4.out) = c4.defs[grci_module_desc_list_get(c2.defs, s.module)].input_param_count,
                                "GRCI_ERR_COMP", "Argument count doesn't match module declaration"),
                  LAMBDA c5:
                    Try(compile_expr_list(c5, s.results),
                      LAMBDA c6:
                        Then(grci_ensure([c6 EXCEPT !.sym.parts.outputs[c.sym.parts.count] = c6.out],
                                         Len(c6.out) = c6.defs[c6.decl.parts[c.sym.parts.count]].output_param_count,
                                         "GRCI_ERR_COMP", "output count doesn't match module declaration"),
                             LAMBDA r: IF r.ok THEN r ELSE ERR([r.c EXCEPT !.at_close = last])))))))

\* int part_idx = symbols->parts.count; symbols->parts.count++;
NewPart(c) ==
    [c EXCEPT !.sym.parts.count = @ + 1,
              !.sym.parts.inputs = Append(@, <<>>),
              !.sym.parts.outputs = Append(@, <<>>),
              !.decl.parts = Append(@, NULL),
              !.decl.part_names = Append(@, NoName),
              !.decl.part_connections = Append(@, <<>>)]

\* grci_compile_part_list, one wire:  {inputs} -> output
CompileWire(c, s) ==
    Try(compile_expr_list(NewWire(c), s.inputs),
      LAMBDA c1:
        Try(grci_ensure([c1 EXCEPT !.sym.wires.inputs[c.sym.wires.count + 1] = c1.out],
                        s.binding \/ Len(c1.out) = 1, "GRCI_ERR_COMP",
                        "Multiple wire inputs must be bound using {}"),
          LAMBDA c2:
            OK([c2 EXCEPT !.sym.wires.outputs =
                              [Append(@, EmptyEntry) EXCEPT ![c.sym.wires.count + 1] = compile_expr(s.output)]])))

\* grci_compile_part_list: c.at_close tells whether the next token is the brace
\* that closes the body when the function returns
grci_compile_part_list(c, body) ==
    Then(Loop(LAMBDA cc, i:
                Try(grci_ensure(cc, cc.sym.parts.count < GRCI_MAX_PARTS, "GRCI_ERR_COMP",
                                "Internal parts exceeding GRCI_MAX_PARTS"),
                    LAMBDA c1:
                      IF body[i + 1].kind = "part"
                      THEN CompilePart(NewPart(c1), body[i + 1], i + 1 = Len(body))
                      ELSE CompileWire(c1, body[i + 1])),
              [c EXCEPT !.at_close = FALSE], Len(body)),
         LAMBDA r: IF r.ok THEN OK([r.c EXCEPT !.at_close = TRUE]) ELSE r)

\* Symbol resolution -----------------------------------------------------------
grci_is_module_input(token, sym) == grci_symbol_list_idx(sym.interface.inputs, token)

grci_is_module_output(token, sym) == grci_symbol_list_idx(sym.interface.outputs, token)

grci_is_wire_output(token, sym) == grci_symbol_list_idx(sym.wires.outputs, token)

\* grci_is_element_output: the first part with a result of that name, as
\* struct grci_element; idx is -1 when there is none
grci_is_element_output(token, sym) ==
    IF \E i \in 1..sym.parts.count : grci_symbol_list_idx(sym.parts.outputs[i], token) # -1
    THEN Then(CHOOSE i \in 1..sym.parts.count :
                 /\ grci_symbol_list_idx(sym.parts.outputs[i], token) # -1
                 /\ \A j \in 1..(i - 1) : grci_symbol_list_idx(sym.parts.outputs[j], token) = -1,
              LAMBDA i: output_part(i - 1, grci_symbol_list_idx(sym.parts.outputs[i], token)))
    ELSE output_part(-1, -1)

\* widths[j] of a description; an element that was never assigned is whatever
\* the memory holds
WidthAt(widths, j, garbage) == IF j < Len(widths) THEN widths[j + 1] ELSE garbage.int

\* the description of part part_idx of the module being compiled
PartDecl(c, part_idx) == c.defs[c.decl.parts[part_idx + 1]]

\* Width inference ---------------------------------------------------------------
\* grci_infer_implicit_element_conn_widths
grci_infer_implicit_element_conn_widths(c, part_idx, garbage) ==
    Try(Loop(LAMBDA cc, j:
               IF cc.sym.parts.outputs[part_idx + 1][j + 1].width # GRCI_UNKNOWN_WIDTH THEN OK(cc)
               ELSE Then([cc EXCEPT !.sym.parts.outputs[part_idx + 1][j + 1].width =
                                        WidthAt(PartDecl(cc, part_idx).output_widths, j, garbage)],
                         LAMBDA c1:
                           Then(c1.sym.parts.outputs[part_idx + 1][j + 1],
                                LAMBDA s:
                                  IF grci_is_module_output(s.token, c1.sym) # -1
                                  THEN grci_ensure(c1,
                                           c1.decl.output_widths[grci_is_module_output(s.token, c1.sym) + 1] = s.width,
                                           "GRCI_ERR_COMP", "output does not match declared output width")
                                  ELSE OK(c1))),
             c, Len(c.sym.parts.outputs[part_idx + 1])),
      LAMBDA c2:
        Loop(LAMBDA cc, j:
               IF cc.sym.parts.inputs[part_idx + 1][j + 1].width # GRCI_UNKNOWN_WIDTH THEN OK(cc)
               ELSE Then([cc EXCEPT !.sym.parts.inputs[part_idx + 1][j + 1].width =
                                        WidthAt(PartDecl(cc, part_idx).input_widths, j, garbage)],
                         LAMBDA c1:
                           Then(c1.sym.parts.inputs[part_idx + 1][j + 1],
                                LAMBDA s:
                                  Try(Then(grci_is_element_output(s.token, c1.sym),
                                           LAMBDA part:
                                             IF part.idx # -1
                                             THEN grci_ensure(c1,
                                                      WidthAt(PartDecl(c1, part.idx).output_widths,
                                                              part.output_idx, garbage) = s.width,
                                                      "GRCI_ERR_COMP",
                                                      "Part expects input width different from the width of the part output")
                                             ELSE OK(c1)),
                                      LAMBDA c3:
                                        IF grci_is_module_input(s.token, c3.sym) # -1
                                        THEN grci_ensure(c3,
                                                 c3.decl.input_widths[grci_is_module_input(s.token, c3.sym) + 1] = s.width,
                                                 "GRCI_ERR_COMP", "input does not match declared input width")
                                        ELSE OK(c3)))),
             c2, Len(c2.sym.parts.inputs[part_idx + 1])))

\* grci_infer_implicit_wire_conn_widths; c.total is total_input_widths
RECURSIVE grci_infer_implicit_wire_conn_widths(_, _, _)
grci_infer_implicit_wire_conn_widths(c, wire_idx, garbage) ==
    Try(grci_ensure([c EXCEPT !.total = 0], Len(c.sym.wires.inputs[wire_idx + 1]) > 0,
                    "GRCI_ERR_COMP", "Wire input must have at least one input"),
      LAMBDA c0:
        Try(Loop(LAMBDA cc, i:
               Then(cc.sym.wires.inputs[wire_idx + 1][i + 1],
                 LAMBDA input_wire:
                   IF input_wire.width # GRCI_UNKNOWN_WIDTH
                   THEN OK([cc EXCEPT !.total = @ + input_wire.width])
                   ELSE Try(
                     IF grci_is_module_input(input_wire.token, cc.sym) # -1
                     THEN OK([cc EXCEPT !.sym.wires.inputs[wire_idx + 1][i + 1].width =
                                 cc.sym.interface.inputs[grci_is_module_input(input_wire.token, cc.sym) + 1].width])
                     ELSE IF grci_is_element_output(input_wire.token, cc.sym).idx # -1
                     THEN Then(grci_is_element_output(input_wire.token, cc.sym),
                               LAMBDA part:
                                 OK([cc EXCEPT !.sym.wires.inputs[wire_idx + 1][i + 1].width =
                                        WidthAt(PartDecl(cc, part.idx).output_widths, part.output_idx, garbage)]))
                     ELSE IF grci_is_wire_output(input_wire.token, cc.sym) # -1
                     THEN Then(grci_is_wire_output(input_wire.token, cc.sym),
                               LAMBDA other_wire_idx:
                                 Ignore(grci_infer_implicit_wire_conn_widths(cc, other_wire_idx, garbage),
                                   LAMBDA c1:
                                     Try(grci_ensure([c1 EXCEPT !.total = cc.total],
                                                     c1.sym.wires.outputs[other_wire_idx + 1].width # GRCI_UNKNOWN_WIDTH,
                                                     "GRCI_ERR_COMP", "grci_compiler Error: wire width not inferred"),
                                       LAMBDA c2:
                                         OK([c2 EXCEPT !.sym.wires.inputs[wire_idx + 1][i + 1].width =
                                                c2.sym.wires.outputs[other_wire_idx + 1].width]))))
                     ELSE IF input_wire.type = "INT_LITERAL"
                     THEN Try(grci_ensure(cc, input_wire.token \in {"0", "1"}, "GRCI_ERR_COMP",
                                          "Constant inputs must be 0 or 1"),
                              LAMBDA c1: OK([c1 EXCEPT !.sym.wires.inputs[wire_idx + 1][i + 1].width = 1]))
                     ELSE grci_ensure(cc, FALSE, "GRCI_ERR_COMP", "not declared in module"),
                     LAMBDA c3:
                       OK([c3 EXCEPT !.total = @ + c3.sym.wires.inputs[wire_idx + 1][i + 1].width]))),
             c0, Len(c0.sym.wires.inputs[wire_idx + 1])),
          LAMBDA c4:
            Try(grci_ensure(c4, \/ c4.sym.wires.outputs[wire_idx + 1].width = GRCI_UNKNOWN_WIDTH
                                \/ c4.sym.wires.outputs[wire_idx + 1].width = c4.total,
                            "GRCI_ERR_COMP", "grci_compiler Error: wire width not inferred"),
              LAMBDA c5: OK([c5 EXCEPT !.sym.wires.outputs[wire_idx + 1].width = c5.total]))))

\* Lowering ------------------------------------------------------------------
\* for (k = 0; k < width; k++) grci_connection_list_append(&part_connections[part_idx], conn(k))
AppendConns(c, part_idx, width, conn(_)) ==
    [c EXCEPT !.decl.part_connections[part_idx + 1] = @ \o [k \in 1..width |-> conn(k - 1)]]

\* grci_connect_wire_to_element
RECURSIVE grci_connect_wire_to_element(_, _, _, _)
grci_connect_wire_to_element(c, wire_idx, part_idx, relative_offset) ==
    Loop(LAMBDA cc, i:
           Then(cc.sym.wires.inputs[wire_idx + 1][i + 1],
             LAMBDA s:
               IF grci_is_wire_output(s.token, cc.sym) # -1
               THEN Ignore(grci_connect_wire_to_element(cc, grci_is_wire_output(s.token, cc.sym),
                                                        part_idx, s.offset + relative_offset),
                           LAMBDA c1: OK(c1))
               ELSE IF grci_is_module_input(s.token, cc.sym) # -1
               THEN Then(grci_absolute_offset(cc.sym.interface.inputs, grci_is_module_input(s.token, cc.sym)),
                         LAMBDA input_off:
                           OK(AppendConns(cc, part_idx, s.width,
                                          LAMBDA j: extern_conn(input_off + s.offset + j))))
               ELSE IF s.type = "INT_LITERAL"
               THEN Try(grci_ensure(cc, s.token \in {"0", "1"}, "GRCI_ERR_COMP", "Constant inputs must be 0 or 1"),
                        LAMBDA c1: OK(AppendConns(c1, part_idx, s.width, LAMBDA j: const_conn(s.token # "0"))))
               ELSE IF grci_is_element_output(s.token, cc.sym).idx # -1
               THEN Then(grci_is_element_output(s.token, cc.sym),
                         LAMBDA op:
                           Then(grci_absolute_offset(cc.sym.parts.outputs[op.idx + 1], op.output_idx),
                                LAMBDA output_offset:
                                  OK(AppendConns(cc, part_idx, s.width,
                                                 LAMBDA k: intern_conn(op.idx, s.offset + output_offset + k)))))
               ELSE grci_ensure(cc, FALSE, "GRCI_ERR_COMP", "not declared")),
         c, Len(c.sym.wires.inputs[wire_idx + 1]))

\* module_decl->outputs[k] = e;  c.decl.outputs holds the elements written so far
SetOutput(c, k, e) ==
    [c EXCEPT !.decl.outputs = [x \in (DOMAIN @) \cup {k} |-> IF x = k THEN e ELSE @[x]]]

\* grci_connect_wire_to_output; c.output_offset is *output_offset
RECURSIVE grci_connect_wire_to_output(_, _, _)
grci_connect_wire_to_output(c, wire_idx, relative_offset) ==
    CHOOSE res \in {LoopFrom(LAMBDA cc, i:
           Then(cc.sym.wires.inputs[wire_idx + 1][i + 1],
             LAMBDA s:
               IF grci_is_wire_output(s.token, cc.sym) # -1
               THEN Ignore(grci_connect_wire_to_output(cc, grci_is_wire_output(s.token, cc.sym), s.offset),
                           LAMBDA c1: OK(c1))
               ELSE IF grci_is_module_input(s.token, cc.sym) # -1
               THEN grci_ensure(cc, FALSE, "GRCI_ERR_COMP",
                                "Invalid connection. Module input is connected to module output")
               ELSE IF s.type = "INT_LITERAL"
               THEN Try(grci_ensure(cc, s.token \in {"0", "1"}, "GRCI_ERR_COMP", "Constant inputs must be 0 or 1"),
                        LAMBDA c1:
                          Then(IF s.token = "0" THEN GRCI_OUTPUT_0 ELSE GRCI_OUTPUT_1,
                               LAMBDA output_idx:
                                 OK([SetOutput(c1, c1.output_offset, output_part(output_idx, output_idx))
                                        EXCEPT !.output_offset = @ + 1])))
               ELSE IF grci_is_element_output(s.token, cc.sym).idx # -1
               THEN Then(grci_is_element_output(s.token, cc.sym),
                         LAMBDA op:
                           Then(grci_absolute_offset(cc.sym.parts.outputs[op.idx + 1], op.output_idx),
                                LAMBDA part_output_off:
                                  OK(Fold(LAMBDA c1, k:
                                            [SetOutput(c1, c1.output_offset,
                                                       output_part(op.idx, part_output_off + k + s.offset))
                                                EXCEPT !.output_offset = @ + 1],
                                          cc, s.width))))
               ELSE grci_ensure(cc, FALSE, "GRCI_ERR_COMP", "not declared")),
         r, relative_offset, Len(c.sym.wires.inputs[wire_idx + 1])) : r \in {OK(c)}} : TRUE

\* grci_compiler_compile_module, "connect internal parts": argument j of part i
ConnectArgument(c, i, j) ==
    Then(c.sym.parts.inputs[i + 1][j + 1],
      LAMBDA e:
        IF grci_is_module_input(e.token, c.sym) # -1
        THEN Then(grci_absolute_offset(c.sym.interface.inputs, grci_is_module_input(e.token, c.sym)),
                  LAMBDA input_offset:
                    grci_ensure(AppendConns(c, i, e.width, LAMBDA k: extern_conn(e.offset + input_offset + k)),
                                e.width = PartDecl(c, i).input_widths[j + 1],
                                "GRCI_ERR_COMP", "Input count does not match module declaration"))
        ELSE IF grci_is_element_output(e.token, c.sym).idx # -1
        THEN Then(grci_is_element_output(e.token, c.sym),
                  LAMBDA part:
                    Then(grci_absolute_offset(c.sym.parts.outputs[part.idx + 1], part.output_idx),
                         LAMBDA output_offset:
                           OK(AppendConns(c, i, e.width,
                                          LAMBDA k: intern_conn(part.idx, output_offset + e.offset + k)))))
        ELSE IF grci_is_wire_output(e.token, c.sym) # -1
        THEN Ignore(grci_connect_wire_to_element(c, grci_is_wire_output(e.token, c.sym), i,
                                                 grci_absolute_offset(c.sym.parts.inputs[i + 1], j)),
                    LAMBDA c1: OK(c1))
        ELSE IF e.type = "INT_LITERAL"
        THEN Try(grci_ensure(c, e.token \in {"0", "1"}, "GRCI_ERR_COMP", "Constant input must be 0 or 1"),
                 LAMBDA c1: OK(AppendConns(c1, i, e.width, LAMBDA k: const_conn(e.token # "0"))))
        ELSE IF e.token = "clock"
        THEN grci_ensure(c, FALSE, "GRCI_ERR_COMP", "This is not being used right?")
        ELSE grci_ensure(c, FALSE, "GRCI_ERR_COMP", "Identifier not declared"))

\* grci_compiler_compile_module, "connect parts to module outputs": result j of
\* part i; c.input_offset is the offset of the result among the part's outputs
ConnectResult(c, i, j) ==
    Then(c.sym.parts.outputs[i + 1][j + 1],
      LAMBDA s:
        Try(IF grci_is_module_output(s.token, c.sym) # -1
            THEN Then(grci_is_module_output(s.token, c.sym),
                      LAMBDA idx:
                        Then(grci_absolute_offset(c.sym.interface.outputs, idx),
                             LAMBDA output_offset:
                               grci_ensure(Fold(LAMBDA c1, k:
                                                  SetOutput(c1, output_offset + k + s.offset,
                                                            output_part(i, c.input_offset + k)),
                                                c, s.width),
                                           s.width <= c.sym.interface.outputs[idx + 1].width,
                                           "GRCI_ERR_COMP", "Output is larger in width than module output")))
            ELSE OK(c),
            LAMBDA c2: OK([c2 EXCEPT !.input_offset = @ + s.width])))

\* grci_compiler_compile_module, "connecting wires to module outputs": wire i
ConnectWireResult(c, i) ==
    Then(c.sym.wires.outputs[i + 1],
      LAMBDA s:
        IF grci_is_module_output(s.token, c.sym) # -1
        THEN Ignore(grci_connect_wire_to_output(
                        [c EXCEPT !.output_offset =
                            grci_absolute_offset(c.sym.interface.outputs,
                                                 grci_is_module_output(s.token, c.sym)) + s.offset],
                        i, 0),
                    LAMBDA c1: OK(c1))
        ELSE OK(c))

\* Registration --------------------------------------------------------------
\* the sink-count loops at the end of grci_compiler_compile_module, for
\* connection lists of any length: a count read past the part's inputs is
\* whatever the memory holds, a count written past the module's inputs is not
\* part of the description
LooseSinkCounts(c, garbage) ==
    Fold(LAMBDA sc, p:
           Fold(LAMBDA s, i:
                  Then(c.decl.part_connections[p + 1][i + 1],
                       LAMBDA conn:
                         IF conn.type = "EXTERNAL" /\ conn.parameter_idx < c.decl.input_count
                         THEN [s EXCEPT ![conn.parameter_idx + 1] =
                                  @ + WidthAt(PartDecl(c, p).sink_counts, i, garbage)]
                         ELSE s),
                sc, Len(c.decl.part_connections[p + 1])),
         [i \in 1..c.decl.input_count |-> 0], c.decl.part_count)

\* what the table entry holds once the description is copied into it: an
\* element of outputs that no statement wrote is whatever the stack held
FinishDesc(c, garbage) ==
    [c.decl EXCEPT
        !.outputs = [k \in 1..c.decl.output_count |->
                        IF (k - 1) \in DOMAIN c.decl.outputs THEN c.decl.outputs[k - 1]
                        ELSE garbage.element],
        !.sink_counts = LooseSinkCounts(c, garbage),
        !.node_count = Fold(LAMBDA n, p: n + PartDecl(c, p).node_count, 0, c.decl.part_count),
        !.dff_count = Fold(LAMBDA n, p: n + PartDecl(c, p).dff_count, 0, c.decl.part_count)]

\* an append that reuses the slot of the entry registered last
grci_module_desc_list_overwrite(c, garbage) ==
    OK([c EXCEPT !.defs = [@ EXCEPT ![Len(@)] = FinishDesc(c, garbage)],
                 !.regs = Append(@, [name |-> c.decl.name,
                                     flawed |-> c.fails > c.fails0,
                                     undriven |-> (0..(c.decl.output_count - 1)) \ DOMAIN c.decl.outputs])])

\* grci_module_desc_list_append, behind its assertion on the capacity.  c.regs
\* notes, for each module registered by the current call, whether a check had
\* failed while it was compiled and which of its output bits no statement drove.
grci_module_desc_list_append(c, garbage) ==
    IF Len(c.defs) >= GRCI_MAX_MODULES THEN ERR([c EXCEPT !.aborted = TRUE])
    ELSE OK([c EXCEPT !.defs = Append(@, FinishDesc(c, garbage)),
                      !.regs = Append(@, [name |-> c.decl.name,
                                          flawed |-> c.fails > c.fails0,
                                          undriven |-> (0..(c.decl.output_count - 1)) \ DOMAIN c.decl.outputs])])

\* the symbols of a parameter list or an output list: offset 0, the bus width
InterfaceSymbols(params) == [i \in 1..Len(params) |-> Entry(params[i].token, "IDENTIFIER", 0, params[i].width)]

\* grci_compiler_compile_module up to the parsing of the body
BeginModule(c, mt) ==
    [c EXCEPT !.fails0 = c.fails,
              !.sym = [grci_symbol_table_init EXCEPT
                          !.interface.inputs = InterfaceSymbols(mt.inputs),
                          !.interface.outputs = InterfaceSymbols(mt.outputs)],
              !.decl = [grci_module_desc_init EXCEPT
                          !.name = mt.name,
                          !.input_param_count = Len(mt.inputs),
                          !.input_count = grci_absolute_offset(InterfaceSymbols(mt.inputs), Len(mt.inputs)),
                          !.output_param_count = Len(mt.outputs),
                          !.output_count = grci_absolute_offset(InterfaceSymbols(mt.outputs), Len(mt.outputs))]]

\* the two inference loops: the status of neither function is looked at
InferWidths(c, garbage) ==
    Fold(LAMBDA cc, i: grci_infer_implicit_wire_conn_widths(cc, i, garbage).c,
         Fold(LAMBDA cc, i: grci_infer_implicit_element_conn_widths(cc, i, garbage).c,
              c, c.decl.part_count),
         c.sym.wires.count)

\* the three lowering loops
LowerModule(c) ==
    Try(Loop(LAMBDA cc, i:
               Loop(LAMBDA c1, j: ConnectArgument(c1, i, j), cc, Len(cc.sym.parts.inputs[i + 1])),
             c, c.decl.part_count),
      LAMBDA c2:
        Try(Loop(LAMBDA cc, i:
                   Loop(LAMBDA c1, j: ConnectResult(c1, i, j),
                        [cc EXCEPT !.input_offset = 0], Len(cc.sym.parts.outputs[i + 1])),
                 c2, c2.decl.part_count),
          LAMBDA c3:
            Loop(LAMBDA cc, i: ConnectWireResult(cc, i), c3, c3.sym.wires.count)))

\* grci_compiler_compile_module.  Once a list past the end of wires.inputs has
\* been written the rest of the call is undefined: the evaluation stops there
\* with c.oob set, and CompileSrc below enumerates what the call can do.
\* parts[] of module_decl is not initialised: an element that the part list
\* left unassigned is what the stack held, a pointer to a description that an
\* earlier call put there or a value whose dereference ends the process
\* (c.aborted).
grci_compiler_compile_module(c, mt, garbage) ==
    Ignore(grci_compile_part_list(BeginModule(c, mt), mt.body),
      LAMBDA c1:
        IF c1.oob THEN ERR(c1) ELSE
        IF c1.at_close /\ garbage.part = NULL /\ \E p \in DOMAIN c1.decl.parts : c1.decl.parts[p] = NULL
        THEN ERR([c1 EXCEPT !.aborted = TRUE]) ELSE
        Try(grci_ensure([c1 EXCEPT !.decl.part_count = c1.sym.parts.count,
                                   !.decl.parts = [p \in DOMAIN @ |-> IF @[p] = NULL THEN garbage.part ELSE @[p]]],
                        c1.sym.parts.count > 0 \/ c1.sym.wires.count > 0,
                        "GRCI_ERR_COMP", "Module must contain at least one part or wire"),
          LAMBDA c2:
            Try(grci_ensure(c2, c2.at_close, "GRCI_ERR_COMP", "Expected '}'"),
              LAMBDA c3:
                Try(grci_ensure(c3, c3.decl.input_count <= GRCI_MAX_INPUTS,
                                "GRCI_ERR_COMP", "Module exceeds the GRCI_MAX_INPUTS"),
                  LAMBDA c4:
                    Try(grci_ensure(c4, c4.decl.output_count <= GRCI_MAX_OUTPUTS,
                                    "GRCI_ERR_COMP", "Module exceeds the GRCI_MAX_OUTPUTS"),
                      LAMBDA c5:
                        Try(LowerModule(InferWidths(
                                [c5 EXCEPT !.decl.input_widths =
                                               [i \in 1..c5.decl.input_param_count |->
                                                   c5.sym.interface.inputs[i].width],
                                           !.decl.output_widths =
                                               [i \in 1..c5.decl.output_param_count |->
                                                   c5.sym.interface.outputs[i].width]],
                                garbage)),
                          LAMBDA c6: grci_module_desc_list_append(c6, garbage)))))))

\* grci_compile_src: the items of the text in turn, up to the end of the text
grci_compile_src(c, src, garbage) ==
    Loop(LAMBDA cc, i:
           IF src[i + 1].kind = "module"
           THEN grci_compiler_compile_module(cc, src[i + 1], garbage)
           ELSE grci_ensure(cc, FALSE, "GRCI_ERR_COMP", "Use keyword 'module' to make a new module"),
         c, Len(src))

\* Source texts given to grci_compile_src ------------------------------------------
\* module Not(in) -> out { Nand(in, in) -> out }
Text_Not ==
    <<ModuleText("Not", <<Param("in", 1)>>, <<Param("out", 1)>>,
                 <<PartStmt(NoName, "Nand", <<Id("in"), Id("in")>>, <<Id("out")>>)>>)>>

\* module Seq3(in) -> o0, o1, o2 {
\*     s0: Dff(x) -> o0  s1: Dff(o0) -> o1  s2: Dff(n2) -> o2
\*     Nand(o2, in) -> x  Nand(o2, o2) -> n2 }
Text_Seq3 ==
    <<ModuleText("Seq3", <<Param("in", 1)>>, <<Param("o0", 1), Param("o1", 1), Param("o2", 1)>>,
                 <<PartStmt("s0", "Dff", <<Id("x")>>, <<Id("o0")>>),
                   PartStmt("s1", "Dff", <<Id("o0")>>, <<Id("o1")>>),
                   PartStmt("s2", "Dff", <<Id("n2")>>, <<Id("o2")>>),
                   PartStmt(NoName, "Nand", <<Id("o2"), Id("in")>>, <<Id("x")>>),
                   PartStmt(NoName, "Nand", <<Id("o2"), Id("o2")>>, <<Id("n2")>>)>>)>>

\* module Bus(a[2], b) -> out[2], c {
\*     {a[1], b} -> w  Nand(w[0], a[0]) -> out[0]  Nand({1}, b) -> out[1]  0 -> c }
Text_Bus ==
    <<ModuleText("Bus", <<Param("a", 2), Param("b", 1)>>, <<Param("out", 2), Param("c", 1)>>,
                 <<WireStmt(TRUE, <<Slice("a", 1, 1), Id("b")>>, Id("w")),
                   PartStmt(NoName, "Nand", <<Slice("w", 0, 0), Slice("a", 0, 0)>>, <<Slice("out", 0, 0)>>),
                   PartStmt(NoName, "Nand", <<Anon(<<Lit("1")>>), Id("b")>>, <<Slice("out", 1, 1)>>),
                   WireStmt(FALSE, <<Lit("0")>>, Id("c"))>>)>>

\* module P(b, a[2]) -> out { Nand(b, a) -> out }
Text_PlainInput ==
    <<ModuleText("P", <<Param("b", 1), Param("a", 2)>>, <<Param("out", 1)>>,
                 <<PartStmt(NoName, "Nand", <<Id("b"), Id("a")>>, <<Id("out")>>)>>)>>

\* module P2(a[2], b) -> out { Nand(a, b) -> out }
Text_PlainInputFirst ==
    <<ModuleText("P2", <<Param("a", 2), Param("b", 1)>>, <<Param("out", 1)>>,
                 <<PartStmt(NoName, "Nand", <<Id("a"), Id("b")>>, <<Id("out")>>)>>)>>

\* module Q(a[4]) -> out { Nand(a[0..1], a[2]) -> out }
Text_SliceInput ==
    <<ModuleText("Q", <<Param("a", 4)>>, <<Param("out", 1)>>,
                 <<PartStmt(NoName, "Nand", <<Slice("a", 0, 1), Slice("a", 2, 2)>>, <<Id("out")>>)>>)>>

\* module R(in[16], load, addr[16]) -> out {
\*     Ram64K(in, load, addr) -> t  Nand(t[0..1], load) -> out }
Text_SlicePart ==
    <<ModuleText("R", <<Param("in", 16), Param("load", 1), Param("addr", 16)>>, <<Param("out", 1)>>,
                 <<PartStmt(NoName, "Ram64K", <<Id("in"), Id("load"), Id("addr")>>, <<Id("t")>>),
                   PartStmt(NoName, "Nand", <<Slice("t", 0, 1), Id("load")>>, <<Id("out")>>)>>)>>

\* module W(a, b) -> out { {a, b} -> w  Nand(w, a) -> out }
Text_NamedWire ==
    <<ModuleText("W", <<Param("a", 1), Param("b", 1)>>, <<Param("out", 1)>>,
                 <<WireStmt(TRUE, <<Id("a"), Id("b")>>, Id("w")),
                   PartStmt(NoName, "Nand", <<Id("w"), Id("a")>>, <<Id("out")>>)>>)>>

\* module V(a, b) -> out { Nand({a, b}, a) -> out }
Text_AnonWire ==
    <<ModuleText("V", <<Param("a", 1), Param("b", 1)>>, <<Param("out", 1)>>,
                 <<PartStmt(NoName, "Nand", <<Anon(<<Id("a"), Id("b")>>), Id("a")>>, <<Id("out")>>)>>)>>

\* module X(a, b) -> out[2] { Nand(a, b) -> out }
Text_ResultWide ==
    <<ModuleText("X", <<Param("a", 1), Param("b", 1)>>, <<Param("out", 2)>>,
                 <<PartStmt(NoName, "Nand", <<Id("a"), Id("b")>>, <<Id("out")>>)>>)>>

\* module Y(a, b) -> out { Nand(a, b) -> out, x }
Text_ResultCount ==
    <<ModuleText("Y", <<Param("a", 1), Param("b", 1)>>, <<Param("out", 1)>>,
                 <<PartStmt(NoName, "Nand", <<Id("a"), Id("b")>>, <<Id("out"), Id("x")>>)>>)>>

\* module U(a, b) -> out, spare { Nand(a, b) -> out }
Text_Undriven ==
    <<ModuleText("U", <<Param("a", 1), Param("b", 1)>>, <<Param("out", 1), Param("spare", 1)>>,
                 <<PartStmt(NoName, "Nand", <<Id("a"), Id("b")>>, <<Id("out")>>)>>)>>

\* module Z(a) -> out { Foo(a) -> out }
Text_Nonexistent ==
    <<ModuleText("Z", <<Param("a", 1)>>, <<Param("out", 1)>>,
                 <<PartStmt(NoName, "Foo", <<Id("a")>>, <<Id("out")>>)>>)>>

\* module Nand(a, b) -> out { Dff(a) -> out }
\* module UseNand(a, b) -> out { Nand(a, b) -> out }
Text_UserNand ==
    <<ModuleText("Nand", <<Param("a", 1), Param("b", 1)>>, <<Param("out", 1)>>,
                 <<PartStmt(NoName, "Dff", <<Id("a")>>, <<Id("out")>>)>>),
      ModuleText("UseNand", <<Param("a", 1), Param("b", 1)>>, <<Param("out", 1)>>,
                 <<PartStmt(NoName, "Nand", <<Id("a"), Id("b")>>, <<Id("out")>>)>>)>>

\* module Not(in) -> out { Nand(in, in) -> out } garbage
Text_Stray == Text_Not \o <<StrayToken>>

\* module WI(a, b) -> out[2] { Nand(a, b) -> x  {x, a} -> out }
Text_WireOutInput ==
    <<ModuleText("WI", <<Param("a", 1), Param("b", 1)>>, <<Param("out", 2)>>,
                 <<PartStmt(NoName, "Nand", <<Id("a"), Id("b")>>, <<Id("x")>>),
                   WireStmt(TRUE, <<Id("x"), Id("a")>>, Id("out"))>>)>>

\* a -> w1  a -> w2 ... a -> wn
NamedWires(n) == [i \in 1..n |-> WireStmt(FALSE, <<Id("a")>>, Id("w" \o ToString(i)))]

\* module Wn(a, b) -> out { a -> w1 ... a -> wn  Nand(w1, b) -> out }
Text_Wires(n) ==
    <<ModuleText("W" \o ToString(n), <<Param("a", 1), Param("b", 1)>>, <<Param("out", 1)>>,
                 NamedWires(n) \o <<PartStmt(NoName, "Nand", <<Id("w1"), Id("b")>>, <<Id("out")>>)>>)>>

\* module WA(a, b) -> out { a -> w1 ... a -> wn  Nand({a}, {b}) -> out }
Text_WiresAnon(n) ==
    <<ModuleText("WA" \o ToString(n + 2), <<Param("a", 1), Param("b", 1)>>, <<Param("out", 1)>>,
                 NamedWires(n) \o <<PartStmt(NoName, "Nand", <<Anon(<<Id("a")>>), Anon(<<Id("b")>>)>>,
                                             <<Id("out")>>)>>)>>

\* module Z(a) -> out { x: Foo }
Text_HeadOnly ==
    <<ModuleText("Z", <<Param("a", 1)>>, <<Param("out", 1)>>, <<PartHead("x", "Foo")>>)>>

\* module S(a) -> out { S(a) -> out }
Text_SelfRef ==
    <<ModuleText("S", <<Param("a", 1)>>, <<Param("out", 1)>>,
                 <<PartStmt(NoName, "S", <<Id("a")>>, <<Id("out")>>)>>)>>

\* module A(a) -> out { B(a) -> out }  module B(a) -> out { Nand(a, a) -> out }
Text_Later ==
    <<ModuleText("A", <<Param("a", 1)>>, <<Param("out", 1)>>,
                 <<PartStmt(NoName, "B", <<Id("a")>>, <<Id("out")>>)>>),
      ModuleText("B", <<Param("a", 1)>>, <<Param("out", 1)>>,
                 <<PartStmt(NoName, "Nand", <<Id("a"), Id("a")>>, <<Id("out")>>)>>)>>

\* module M1(in) -> out { Nand(in, in) -> out } ... module Mn(in) -> out { Nand(in, in) -> out }
Text_Modules(n) ==
    [i \in 1..n |-> ModuleText("M" \o ToString(i), <<Param("in", 1)>>, <<Param("out", 1)>>,
                               <<PartStmt(NoName, "Nand", <<Id("in"), Id("in")>>, <<Id("out")>>)>>)]

\* entries of the module table that grci_compiler_init leaves free
UserRoom == GRCI_MAX_MODULES - Len(grci_compiler_init)

\* texts about the module table: names that do not resolve, and many modules
ResolveTexts ==
    <<Text_Not, Text_Nonexistent, Text_HeadOnly, Text_SelfRef, Text_Later,
      Text_Modules(UserRoom \div 2), Text_Modules(UserRoom - (UserRoom \div 2)),
      Text_Modules(UserRoom), Text_Modules(UserRoom + 1)>>

\* texts about widths, wires, outputs and errors
CompileTexts ==
    <<Text_Seq3, Text_Bus, Text_PlainInput, Text_SliceInput, Text_SlicePart,
      Text_NamedWire, Text_AnonWire, Text_ResultCount, Text_Undriven, Text_UserNand,
      Text_Stray, Text_WireOutInput, Text_PlainInputFirst, Text_ResultWide, Text_Nonexistent,
      Text_Wires(GRCI_MAX_WIRES), Text_Wires(GRCI_MAX_WIRES + 1), Text_WiresAnon(GRCI_MAX_WIRES - 1)>>

\* the texts the caller passes to grci_compile_src
SourceTexts == CompileTexts \o ResolveTexts

\* Public calls ------------------------------------------------------------------
\* what grci_init leaves: the compiler context with the three built-ins
grci_init == [module_defs |-> grci_compiler_init, id_counter |-> 0]

\* the context of one public call on g, with the error buffer as it stands
NewContext(ctx, buf) ==
    [err |-> buf, cause |-> NoError, type |-> "GRCI_OK", fails |-> 0, fails0 |-> 0,
     defs |-> ctx.module_defs, id_counter |-> ctx.id_counter,
     sym |-> grci_symbol_table_init, decl |-> grci_module_desc_init,
     oob |-> FALSE, aborted |-> FALSE, regs |-> <<>>,
     out |-> <<>>, total |-> 0, output_offset |-> 0, input_offset |-> 0, at_close |-> FALSE]

\* grci_string_matches(s, c, len): same length and same bytes
grci_string_matches(s, name) == Len(s) = Len(name) /\ s = name

\* grci_submodule: &submodules[i] is i + 1, NULL is 0; parts without a name are
\* skipped
grci_submodule(c, desc, name) ==
    IF \E i \in 1..desc.part_count :
          desc.part_names[i] # NoName /\ grci_string_matches(desc.part_names[i], name)
    THEN [ret |-> CHOOSE i \in 1..desc.part_count :
                     /\ desc.part_names[i] # NoName /\ grci_string_matches(desc.part_names[i], name)
                     /\ \A j \in 1..(i - 1) :
                           desc.part_names[j] = NoName \/ ~grci_string_matches(desc.part_names[j], name),
          c |-> c]
    ELSE [ret |-> NULL, c |-> grci_ensure_retnull(c, FALSE, "GRCI_ERR_SIM", "submodule does not exist").c]

VARIABLES
    inst,       \* the module instance (struct grci_module and what it owns)
    steps,      \* number of grci_step_module calls made on it
    ret,        \* value returned by the last call
    clean,      \* no state buffer was written by the caller since the last call
    hist,       \* Register: in, load and the level returned, for each call so far
    lastStore,  \* RAM tops: <<A, N>> of the latest store by a step with load high
    writes,     \* RAM tops: number of state-buffer elements the caller has written
    g,          \* the compiler context (struct grci): module table and id counter
    grci_err_buf,   \* the error buffer that grci_err returns
    call,       \* the last public call on g: what it was given and what it did
    host,       \* the blocks obtained from the host allocator and not yet released
    pair,       \* two module instances made from the same context
    tok         \* a tokenizer over one source text and the token it returned last

vars == <<inst, steps, ret, clean, hist, lastStore, writes, g, grci_err_buf, call, host, pair, tok>>

\* where a specification does not follow the host allocator, the second
\* instance or the tokenizer
NotFollowed == [followed |-> FALSE]

\* no call made on g since grci_init
NoCall ==
    [op |-> "grci_init", arg |-> NULL, status |-> "ok", handle |-> NULL,
     cause |-> NoError, type |-> "GRCI_OK", fails |-> 0, regs |-> <<>>, oob |-> FALSE, compiles |-> 0, calls |-> 0]

\* no module instantiated
NoInstance == [module |-> [desc |-> NULL]]

Top == inst.module.desc

PartCount == Len(module_defs[Top].parts)

NoStore == <<>>

\* m->inputs comes from malloc and is not initialised: it holds any vector until
\* the caller writes it
InitOf(tops) ==
    /\ \E d \in tops :
         \E garbage \in (IF d \in LogicTops THEN {0} ELSE GarbageBytes), vec \in InputChoices(d) :
            inst = [grci_init_module(d, garbage) EXCEPT !.inputs = vec]
    /\ steps = 0
    /\ ret = TRUE
    /\ clean = TRUE
    /\ hist = <<>>
    /\ lastStore = NoStore
    /\ writes = 0
    /\ g = [module_defs |-> module_defs, id_counter |-> 0]
    /\ grci_err_buf = NoError
    /\ call = NoCall
    /\ host = NotFollowed
    /\ pair = NotFollowed
    /\ tok = NotFollowed

Init == InitOf(LogicTops)

InitRam == InitOf(RamTops)

\* the caller sets m->inputs[0 .. input_count - 1]
WriteInputs(vec) ==
    /\ vec # inst.inputs
    /\ inst' = [inst EXCEPT !.inputs = vec]
    /\ UNCHANGED <<steps, ret, clean, hist, lastStore, writes, g, grci_err_buf, call, host, pair, tok>>

\* sub->states[j] = v on the buffer of a named part that is not a Ram64K
WriteStates(i, j, v) ==
    /\ IsNamed(inst, i) /\ ~IsRamPart(inst, i)
    /\ j < inst.module.submodules[i + 1].state_count
    /\ inst.module.submodules[i + 1].states.seq[j + 1] # v
    /\ inst' = [inst EXCEPT !.module.submodules[i + 1].states.seq[j + 1] = v]
    /\ clean' = FALSE
    /\ UNCHANGED <<steps, ret, hist, lastStore, writes, g, grci_err_buf, call, host, pair, tok>>

\* element idx of a Ram64K state buffer
RamStatesGet(states, idx) ==
    IF (idx \div 8) \in DOMAIN states.m THEN states.m[idx \div 8][(idx % 8) + 1] ELSE FALSE

RamStatesPut(states, idx, v) ==
    LET j == idx \div 8
        zero == [i \in 1..8 |-> FALSE]
        old == IF j \in DOMAIN states.m THEN states.m[j] ELSE zero
        new == [old EXCEPT ![(idx % 8) + 1] = v]
    IN IF new = zero
       THEN [states EXCEPT !.m = [x \in (DOMAIN states.m) \ {j} |-> states.m[x]]]
       ELSE [states EXCEPT !.m = [x \in (DOMAIN states.m) \cup {j} |-> IF x = j THEN new ELSE states.m[x]]]

\* sub->states[idx] = v on the buffer of a named Ram64K part
WriteRamStates(i, idx, v) ==
    /\ clean /\ writes < MaxWrites
    /\ IsNamed(inst, i) /\ IsRamPart(inst, i)
    /\ RamStatesGet(inst.module.submodules[i + 1].states, idx) # v
    /\ inst' = [inst EXCEPT !.module.submodules[i + 1].states = RamStatesPut(@, idx, v)]
    /\ clean' = FALSE
    /\ lastStore' = NoStore
    /\ writes' = writes + 1
    /\ UNCHANGED <<steps, ret, hist, g, grci_err_buf, call, host, pair, tok>>

\* the 16-bit value of module inputs in[0..15] / addr[0..15] of a RAM top
VecData(vec) == Fold(LAMBDA n, i: n + B2N(vec[i + 1]) * 2 ^ i, 0, 16)
VecLoad(vec) == vec[17]
VecAddr(vec) == Fold(LAMBDA n, i: n + B2N(vec[i + 18]) * 2 ^ i, 0, 16)
RegIn(vec) == Fold(LAMBDA n, i: n + B2N(vec[i + 1]) * 2 ^ i, 0, RegisterWidth)

\* Every outcome of grci_step_module(m): one per value that a byte read past the
\* end of a RAM store may have, when the step reads such a byte
OobTouched(sim) == \E t \in sim.touched : t.byte >= RamBytes

StepOutcomes(i) ==
    UNION {IF OobTouched(r.sim)
           THEN {grci_step_module(i, oobv) : oobv \in OobBytes}
           ELSE {r} : r \in {grci_step_module(i, Retained)}}

\* the 16-bit value shown on the outputs of a RAM top, the 8-bit value of Register
OutValue(outputs) == Fold(LAMBDA n, i: n + B2N(outputs[i + 1]) * 2 ^ i, 0, Len(outputs))

\* grci_step_module(m)
StepModule ==
    /\ steps < (IF Top = iRegister THEN MaxRegSteps
                ELSE IF Top \in LogicTops THEN MaxSteps ELSE MaxRamSteps)
    /\ \E next \in StepOutcomes(inst) :
         \E rising \in {ClockOf(next.sim)} :
            /\ inst' = [next EXCEPT !.sim.oobv = Retained]
            /\ ret' = rising
            /\ hist' = IF Top = iRegister
                       THEN Append(hist, [in |-> RegIn(inst.inputs),
                                          load |-> inst.inputs[RegisterWidth + 1],
                                          clock |-> rising])
                       ELSE hist
            /\ lastStore' = IF Top \in LogicTops THEN lastStore
                            ELSE IF rising /\ VecLoad(inst.inputs)
                            THEN <<VecAddr(inst.inputs), VecData(inst.inputs)>>
                            ELSE IF next.sim.stores # {} THEN NoStore
                            ELSE lastStore
    /\ steps' = steps + 1
    /\ clean' = TRUE
    /\ UNCHANGED <<writes, g, grci_err_buf, call, host, pair, tok>>

Next ==
    \/ \E vec \in InputChoices(Top) : WriteInputs(vec)
    \/ \E i \in 0..(PartCount - 1), j \in 0..1, v \in BOOLEAN : WriteStates(i, j, v)
    \/ StepModule

Spec == Init /\ [][Next]_vars

NextRam ==
    \/ \E vec \in InputChoices(Top) : WriteInputs(vec)
    \/ \E i \in 0..(PartCount - 1), idx \in RamStateWrites, v \in BOOLEAN : WriteRamStates(i, idx, v)
    \/ StepModule

SpecRam == InitRam /\ [][NextRam]_vars

InitChain == InitOf(ChainTops)

NextChain ==
    \/ \E vec \in InputChoices(Top) : WriteInputs(vec)
    \/ StepModule

SpecChain == InitChain /\ [][NextChain]_vars

\* ---------------------------------------------------------------------------
\* Two instances from one context: pair.insts[1] and pair.insts[2].  Each grci_init_module
\* call makes its own struct grci_sim: node array, DFF list, arena, the three
\* shared nodes, state buffers, inputs and outputs; the descriptions in
\* module_defs are read by both and written by neither
\* ---------------------------------------------------------------------------
FirstTops == {iSeq3}
SecondTops == {iSeq3, iMem}

InitPair ==
    /\ inst = NoInstance
    /\ steps = 0
    /\ ret = TRUE
    /\ clean = TRUE
    /\ hist = <<>>
    /\ lastStore = NoStore
    /\ writes = 0
    /\ g = [module_defs |-> module_defs, id_counter |-> 0]
    /\ grci_err_buf = NoError
    /\ call = NoCall
    /\ host = NotFollowed
    /\ \E d1 \in FirstTops, d2 \in SecondTops :
         \E vec1 \in InputChoices(d1), vec2 \in InputChoices(d2) :
            pair = [followed |-> TRUE,
                    insts |-> <<[grci_init_module(d1, 0) EXCEPT !.inputs = vec1],
                                [grci_init_module(d2, 0) EXCEPT !.inputs = vec2]>>,
                    steps |-> <<0, 0>>, calls |-> <<0, 0>>]
    /\ tok = NotFollowed

PairCalls == pair.calls[1] + pair.calls[2]

\* the caller sets the inputs of instance k
PairWriteInputs(k, vec) ==
    /\ PairCalls < MaxPairCalls
    /\ vec # pair.insts[k].inputs
    /\ pair' = [pair EXCEPT !.insts[k].inputs = vec, !.calls[k] = @ + 1]
    /\ UNCHANGED <<inst, steps, ret, clean, hist, lastStore, writes, g, grci_err_buf, call, host, tok>>

\* sub->states[j] = v, or element j of a Ram64K buffer, on instance k
PairWriteStates(k, i, j, v) ==
    /\ PairCalls < MaxPairCalls
    /\ i < Len(module_defs[pair.insts[k].module.desc].parts)
    /\ IsNamed(pair.insts[k], i)
    /\ IF IsRamPart(pair.insts[k], i)
       THEN /\ j \in RamStateWrites
            /\ RamStatesGet(pair.insts[k].module.submodules[i + 1].states, j) # v
            /\ pair' = [pair EXCEPT !.insts[k].module.submodules[i + 1].states = RamStatesPut(@, j, v),
                                    !.calls[k] = @ + 1]
       ELSE /\ j < pair.insts[k].module.submodules[i + 1].state_count
            /\ pair.insts[k].module.submodules[i + 1].states.seq[j + 1] # v
            /\ pair' = [pair EXCEPT !.insts[k].module.submodules[i + 1].states.seq[j + 1] = v,
                                    !.calls[k] = @ + 1]
    /\ UNCHANGED <<inst, steps, ret, clean, hist, lastStore, writes, g, grci_err_buf, call, host, tok>>

\* a step of instance k when the clock node belongs to the context: it toggles
\* in every instance
PairStepSharedClock(k) ==
    /\ PairCalls < MaxPairCalls
    /\ \E next \in StepOutcomes(pair.insts[k]) :
         pair' = [pair EXCEPT !.insts = [x \in 1..2 |->
                                           IF x = k THEN [next EXCEPT !.sim.oobv = Retained]
                                           ELSE [@[x] EXCEPT !.sim.nodes[@[x].sim.clock].constant = ~@]],
                              !.steps[k] = @ + 1, !.calls[k] = @ + 1]
    /\ UNCHANGED <<inst, steps, ret, clean, hist, lastStore, writes, g, grci_err_buf, call, host, tok>>

\* grci_step_module on instance k
PairStep(k) ==
    /\ PairCalls < MaxPairCalls
    /\ \E next \in StepOutcomes(pair.insts[k]) :
         pair' = [pair EXCEPT !.insts[k] = [next EXCEPT !.sim.oobv = Retained],
                              !.steps[k] = @ + 1, !.calls[k] = @ + 1]
    /\ UNCHANGED <<inst, steps, ret, clean, hist, lastStore, writes, g, grci_err_buf, call, host, tok>>

NextPair ==
    \/ \E k \in 1..2 : \E vec \in InputChoices(pair.insts[k].module.desc) : PairWriteInputs(k, vec)
    \/ \E k \in 1..2, i \in 0..2, j \in {0} \cup RamStateWrites, v \in BOOLEAN : PairWriteStates(k, i, j, v)
    \/ \E k \in 1..2 : PairStep(k)

SpecPair == InitPair /\ [][NextPair]_vars

GarbageChoices ==
    {[element |-> output_part(GRCI_OUTPUT_NONE, GRCI_OUTPUT_NONE), int |-> 0, part |-> NULL],
     [element |-> output_part(GRCI_OUTPUT_1, GRCI_OUTPUT_1), int |-> 7,
      part |-> grci_module_desc_list_get(grci_compiler_init, "Nand")]}

\* names the caller passes to grci_init_module and to grci_submodule
ModuleNames == {"Nand", "Seq3", "Not"}
SubmoduleNames == {"s1", "s", "nope"}

Crashed == call.status = "crash"

Called(op, arg, status, handle, c) ==
    [op |-> op, arg |-> arg, status |-> status, handle |-> handle,
     cause |-> c.cause, type |-> c.type, fails |-> c.fails, regs |-> c.regs, oob |-> c.oob,
     compiles |-> call.compiles + (IF op = "grci_compile_src" THEN 1 ELSE 0),
     calls |-> call.calls + 1]

\* ---------------------------------------------------------------------------
\* The host allocator: the blocks that malloc and realloc of the caller have
\* handed out and free has not taken back.  owner 0 is the context, owner m > 0
\* the module instance with handle m
\* ---------------------------------------------------------------------------
Block(owner, what, n) == [owner |-> owner, what |-> what, n |-> n]

ChunkCount(blocks, owner) == Cardinality({b \in blocks : b.owner = owner /\ b.what = "chunk.base"})

\* grci_arena_init: the chunk directory and chunk 0
grci_arena_init(owner) == {Block(owner, "arena.chunks", 0), Block(owner, "chunk.base", 0)}

\* grci_arena_malloc finding no room: grci_chunk_init and grci_append_chunk,
\* grow times (the directory keeps being one block when realloc moves it)
grci_append_chunk(blocks, owner, grow) ==
    blocks \cup {Block(owner, "chunk.base", ChunkCount(blocks, owner) + n) : n \in 0..(grow - 1)}

\* grci_arena_cleanup: every chunk, then the directory
grci_arena_cleanup(blocks, owner) ==
    {b \in blocks : ~(b.owner = owner /\ b.what \in {"chunk.base", "arena.chunks"})}

\* what grci_init obtains: struct grci and the arena of the compiler
grci_init_host ==
    [followed |-> TRUE, live |-> TRUE, blocks |-> {Block(0, "grci", 0)} \cup grci_arena_init(0),
     modules |-> {}, next |-> 1]

\* how many chunks the allocations of one call may add to an arena: the sizes
\* allocated are those of the platform
Growth(h) == IF h.followed THEN 0..MaxGrow ELSE {0}

\* the allocations of grci_compile_src, all from the arena of the compiler
grci_compile_src_host(h, grow) ==
    IF h.followed THEN [h EXCEPT !.blocks = grci_append_chunk(@, 0, grow)] ELSE h

\* the allocations of grci_init_module with grci_simulator_init
grci_init_module_host(h, grow) ==
    IF h.followed
    THEN LET m == h.next
         IN [h EXCEPT !.blocks = grci_append_chunk(
                                     @ \cup {Block(m, "module", 0), Block(m, "module->sim", 0),
                                             Block(m, "sim->nodes", 0), Block(m, "sim->dff_nodes", 0),
                                             Block(m, "module->inputs", 0), Block(m, "module->outputs", 0)}
                                       \cup grci_arena_init(m), m, grow),
                      !.modules = @ \cup {m},
                      !.next = m + 1]
    ELSE h

\* grci_simulator_cleanup
grci_simulator_cleanup(blocks, m) ==
    grci_arena_cleanup(blocks, m) \ {Block(m, "sim->nodes", 0), Block(m, "sim->dff_nodes", 0)}

\* grci_destroy_module(m)
grci_destroy_module(h, m) ==
    [h EXCEPT !.blocks = grci_simulator_cleanup(@, m) \ {Block(m, "module->sim", 0), Block(m, "module", 0)},
              !.modules = @ \ {m}]

\* grci_cleanup(g)
grci_cleanup(h) == [h EXCEPT !.blocks = @ \ {Block(0, "grci", 0)}, !.live = FALSE]

\* the context has not been given to grci_cleanup
Alive == IF host.followed THEN host.live ELSE TRUE

InitContext(h) ==
    /\ g = grci_init
    /\ grci_err_buf = NoError
    /\ call = NoCall
    /\ inst = NoInstance
    /\ steps = 0
    /\ ret = TRUE
    /\ clean = TRUE
    /\ hist = <<>>
    /\ lastStore = NoStore
    /\ writes = 0
    /\ host = h
    /\ pair = NotFollowed
    /\ tok = NotFollowed

InitCompile == InitContext(NotFollowed)

\* grci_compile_src(g, SourceTexts[k], ...)
CompileSrc(k, garbage) ==
    /\ ~Crashed /\ Alive /\ call.compiles < MaxCompiles /\ call.calls < MaxCalls
    /\ \E r \in {grci_compile_src(NewContext(g, grci_err_buf), SourceTexts[k], garbage)} :
         IF r.c.aborted
         THEN /\ call' = Called("grci_compile_src", k, "crash", NULL, r.c)
              /\ UNCHANGED <<g, grci_err_buf>>
         ELSE IF r.c.oob
         THEN \/ /\ call' = Called("grci_compile_src", k, "crash", NULL, r.c)
                 /\ UNCHANGED <<g, grci_err_buf>>
              \/ \E c \in {Raise(r.c, "GRCI_ERR_COMP", "Multiple wire inputs must be bound using {}")} :
                    /\ g' = [module_defs |-> c.defs, id_counter |-> c.id_counter]
                    /\ grci_err_buf' = c.err
                    /\ call' = Called("grci_compile_src", k, "err", NULL, c)
         ELSE /\ g' = [module_defs |-> r.c.defs, id_counter |-> r.c.id_counter]
              /\ grci_err_buf' = r.c.err
              /\ call' = Called("grci_compile_src", k, IF r.ok THEN "ok" ELSE "err", NULL, r.c)
    /\ \E grow \in Growth(host) : host' = grci_compile_src_host(host, grow)
    /\ UNCHANGED <<inst, steps, ret, clean, hist, lastStore, writes, pair, tok>>

\* grci_init_module(g, name, ...): the lookup, its assertion and m->desc; the
\* elaboration of the instance is grci_init_module above
InitModule(name) ==
    /\ ~Crashed /\ Alive /\ call.calls < MaxCalls
    /\ \E decl \in {grci_module_desc_list_get(g.module_defs, name)} :
         IF decl = NULL
         THEN /\ call' = Called("grci_init_module", name, "crash", NULL, NewContext(g, grci_err_buf))
              /\ UNCHANGED <<inst, host>>
         ELSE /\ call' = Called("grci_init_module", name, "ok", decl, NewContext(g, grci_err_buf))
              /\ inst' = [module |-> [desc |-> decl]]
              /\ \E grow \in Growth(host) : host' = grci_init_module_host(host, grow)
    /\ UNCHANGED <<g, grci_err_buf, steps, ret, clean, hist, lastStore, writes, pair, tok>>

\* grci_destroy_module(m) on a live instance
DestroyModule(m) ==
    /\ ~Crashed /\ host.followed /\ host.live /\ m \in host.modules
    /\ host' = grci_destroy_module(host, m)
    /\ call' = Called("grci_destroy_module", m, "ok", NULL, NewContext(g, grci_err_buf))
    /\ UNCHANGED <<g, grci_err_buf, inst, steps, ret, clean, hist, lastStore, writes, pair, tok>>

\* grci_cleanup(g)
Cleanup ==
    /\ ~Crashed /\ host.followed /\ host.live
    /\ host' = grci_cleanup(host)
    /\ call' = Called("grci_cleanup", NULL, "ok", NULL, NewContext(g, grci_err_buf))
    /\ UNCHANGED <<g, grci_err_buf, inst, steps, ret, clean, hist, lastStore, writes, pair, tok>>

\* grci_submodule(m, name, ...) on the instance made last
Submodule(name) ==
    /\ ~Crashed /\ call.calls < MaxCalls
    /\ inst.module.desc # NULL
    /\ \E r \in {grci_submodule(NewContext(g, grci_err_buf), g.module_defs[inst.module.desc], name)} :
         /\ grci_err_buf' = r.c.err
         /\ call' = Called("grci_submodule", name, IF r.ret = NULL THEN "null" ELSE "ok", r.ret, r.c)
    /\ UNCHANGED <<g, inst, steps, ret, clean, hist, lastStore, writes, host, pair, tok>>

NextCompile ==
    \/ \E k \in 1..Len(CompileTexts), garbage \in GarbageChoices : CompileSrc(k, garbage)
    \/ \E name \in ModuleNames : InitModule(name)
    \/ \E name \in SubmoduleNames : Submodule(name)

SpecCompile == InitCompile /\ [][NextCompile]_vars

\* the same caller with the texts about the module table
NextResolve ==
    \/ \E k \in (Len(CompileTexts) + 1)..Len(SourceTexts), garbage \in GarbageChoices : CompileSrc(k, garbage)
    \/ \E name \in ModuleNames : InitModule(name)
    \/ \E name \in SubmoduleNames : Submodule(name)

SpecResolve == InitCompile /\ [][NextResolve]_vars

\* the life of a context: grci_init, compiling, instances made and destroyed,
\* grci_cleanup
InitLife == InitContext(grci_init_host)

LifeTexts == {Len(CompileTexts) + 1, Len(CompileTexts) + 2}

NextLife ==
    \/ \E k \in LifeTexts, garbage \in GarbageChoices : CompileSrc(k, garbage)
    \/ \E name \in ModuleNames : InitModule(name)
    \/ \E m \in 1..MaxCalls : DestroyModule(m)
    \/ Cleanup

SpecLife == InitLife /\ [][NextLife]_vars

\* C22 (as claimed): once every instance has been given to grci_destroy_module
\* and the context to grci_cleanup, no block obtained from the host allocator
\* stays allocated
C22_AllBlocksReleased ==
    (host.followed /\ ~host.live /\ host.modules = {}) => host.blocks = {}

\* ---------------------------------------------------------------------------
\* The tokenizer over a text of characters.  buf[idx] is the character at idx
\* (0-based); the text is followed by its terminating NUL, and the NUL by
\* memory that is not the text's: tail, then nothing that can be read
\* ---------------------------------------------------------------------------
NUL == "NUL"
Unmapped == "unmapped"

Alphabet == {"a", "/", "*", "\n", " ", "(", "0", "b"}

Texts == UNION {[1..n -> Alphabet] : n \in 0..MaxTextLen}

\* what may lie behind the terminating NUL
Tails == {<<>>, <<"\n", NUL>>, <<"*", "/", NUL>>}

TokByte(t, i) ==
    IF i < Len(t.buf) THEN t.buf[i + 1]
    ELSE IF i = Len(t.buf) THEN NUL
    ELSE IF i - Len(t.buf) <= Len(t.tail) THEN t.tail[i - Len(t.buf)]
    ELSE Unmapped

grci_tokenizer_peek_one(t) == TokByte(t, t.idx)
grci_tokenizer_grci_peek_two(t) == TokByte(t, t.idx + 1)

\* a read of memory that cannot be read ends the process
Fault(t) == [t EXCEPT !.crashed = TRUE]

grci_is_digit(c) == c \in {"0", "1", "2", "3", "4", "5", "6", "7", "8", "9"}
grci_is_symbol(c) == c \in {"{", "}", "(", ")", "[", "]", ",", ".", "-", ">", ":"}
grci_is_delimiter(c) == grci_is_symbol(c) \/ c \in {" ", "\n", "\t", NUL, "\r"}
grci_is_keyword(lit) == lit \in {<<"m", "o", "d", "u", "l", "e">>, <<"t", "e", "s", "t">>,
                                  <<"c", "l", "o", "c", "k">>}

\* while (buf[idx] != '\n') idx++;
RECURSIVE SkipLineComment(_)
SkipLineComment(t) ==
    IF grci_tokenizer_peek_one(t) = Unmapped THEN Fault(t)
    ELSE IF grci_tokenizer_peek_one(t) = "\n" THEN t
    ELSE SkipLineComment([t EXCEPT !.idx = @ + 1])

\* while (!(buf[idx] == '*' && buf[idx + 1] == '/')) { if (buf[idx] == '\n') line++; idx++; }
RECURSIVE SkipBlockComment(_)
SkipBlockComment(t) ==
    IF grci_tokenizer_peek_one(t) = Unmapped THEN Fault(t)
    ELSE IF grci_tokenizer_peek_one(t) = "*" /\ grci_tokenizer_grci_peek_two(t) = Unmapped THEN Fault(t)
    ELSE IF grci_tokenizer_peek_one(t) = "*" /\ grci_tokenizer_grci_peek_two(t) = "/" THEN t
    ELSE SkipBlockComment([t EXCEPT !.idx = @ + 1,
                                    !.line = IF grci_tokenizer_peek_one(t) = "\n" THEN @ + 1 ELSE @])

RECURSIVE grci_tokenizer_skip_whitespace_and_comments(_)
grci_tokenizer_skip_whitespace_and_comments(t) ==
    LET c == grci_tokenizer_peek_one(t)
        c2 == grci_tokenizer_grci_peek_two(t)
    IN IF t.crashed THEN t
       ELSE IF c = Unmapped THEN Fault(t)
       ELSE IF c \in {" ", "\t", "\n", "\r"}
       THEN grci_tokenizer_skip_whitespace_and_comments(
                [t EXCEPT !.idx = @ + 1, !.line = IF c = "\n" THEN @ + 1 ELSE @])
       ELSE IF c = "/" /\ c2 = Unmapped THEN Fault(t)
       ELSE IF c = "/" /\ c2 = "/"
       THEN LET t1 == SkipLineComment(t)
            IN IF t1.crashed THEN t1
               ELSE grci_tokenizer_skip_whitespace_and_comments(
                        [t1 EXCEPT !.idx = @ + 1, !.line = @ + 1])
       ELSE IF c = "/" /\ c2 = "*"
       THEN LET t1 == SkipBlockComment(t)
            IN IF t1.crashed THEN t1
               ELSE grci_tokenizer_skip_whitespace_and_comments([t1 EXCEPT !.idx = @ + 2])
       ELSE t

\* the token of type type that starts at start and ends where t stands
Token(t, type, start) ==
    [type |-> type, literal |-> [k \in 1..(t.idx - start) |-> TokByte(t, start + k - 1)], line |-> t.line]

EofToken(t) == [type |-> "GRCI_TT_EOF", literal |-> <<>>, line |-> t.line]

\* while (grci_is_digit(peek_one)) idx++;
RECURSIVE SkipDigits(_)
SkipDigits(t) ==
    IF grci_tokenizer_peek_one(t) = Unmapped THEN Fault(t)
    ELSE IF grci_is_digit(grci_tokenizer_peek_one(t)) THEN SkipDigits([t EXCEPT !.idx = @ + 1])
    ELSE t

\* while (!grci_is_delimiter(peek_one)) idx++;
RECURSIVE SkipToDelimiter(_)
SkipToDelimiter(t) ==
    IF grci_tokenizer_peek_one(t) = Unmapped THEN Fault(t)
    ELSE IF grci_is_delimiter(grci_tokenizer_peek_one(t)) THEN t
    ELSE SkipToDelimiter([t EXCEPT !.idx = @ + 1])

\* grci_tokenize_multidigit asserts that the literal is not empty
grci_tokenize_multidigit(t, type) ==
    LET t1 == SkipDigits(t)
    IN IF t1.crashed THEN t1
       ELSE IF t1.idx = t.idx THEN [t1 EXCEPT !.aborted = TRUE]
       ELSE [t1 EXCEPT !.last = Token(t1, type, t.idx)]

grci_tokenize_number(t) ==
    IF grci_tokenizer_peek_one(t) = "0" /\ grci_tokenizer_grci_peek_two(t) = "b"
    THEN grci_tokenize_multidigit([t EXCEPT !.idx = @ + 2], "GRCI_TT_BYTE")
    ELSE IF grci_tokenizer_peek_one(t) = "0" /\ grci_tokenizer_grci_peek_two(t) = "w"
    THEN grci_tokenize_multidigit([t EXCEPT !.idx = @ + 2], "GRCI_TT_WORD")
    ELSE LET t1 == SkipDigits(t)
         IN IF t1.crashed THEN t1 ELSE [t1 EXCEPT !.last = Token(t1, "GRCI_TT_INT_LITERAL", t.idx)]

grci_tokenize_symbols(t) ==
    LET t1 == [t EXCEPT !.idx = @ + 1] IN [t1 EXCEPT !.last = Token(t1, "GRCI_TT_SYMBOL", t.idx)]

grci_tokenize_keyword_or_identifier(t) ==
    LET t1 == SkipToDelimiter(t)
    IN IF t1.crashed THEN t1
       ELSE [t1 EXCEPT !.last = Token(t1, IF grci_is_keyword(Token(t1, "", t.idx).literal)
                                          THEN "GRCI_TT_KEYWORD" ELSE "GRCI_TT_IDENTIFIER", t.idx)]

\* grci_tokenizer_next
grci_tokenizer_next(t0) ==
    LET t == grci_tokenizer_skip_whitespace_and_comments(t0)
        c == grci_tokenizer_peek_one(t)
    IN IF t.crashed THEN t
       ELSE IF c = NUL THEN [t EXCEPT !.last = EofToken(t)]
       ELSE IF grci_is_digit(c) THEN grci_tokenize_number(t)
       ELSE IF grci_is_symbol(c) THEN grci_tokenize_symbols(t)
       ELSE grci_tokenize_keyword_or_identifier(t)

\* grci_tokenizer_init, and buf and idx as grci_compile_src sets them
grci_tokenizer_init(buf, tail) ==
    [followed |-> TRUE, buf |-> buf, tail |-> tail, idx |-> 0, line |-> 1,
     last |-> [type |-> "none", literal |-> <<>>, line |-> 0], calls |-> 0,
     crashed |-> FALSE, aborted |-> FALSE]

InitTokenizer ==
    /\ inst = NoInstance
    /\ steps = 0
    /\ ret = TRUE
    /\ clean = TRUE
    /\ hist = <<>>
    /\ lastStore = NoStore
    /\ writes = 0
    /\ g = grci_init
    /\ grci_err_buf = NoError
    /\ call = NoCall
    /\ host = NotFollowed
    /\ pair = NotFollowed
    /\ \E buf \in Texts, tail \in Tails : tok = grci_tokenizer_init(buf, tail)

\* one call of grci_tokenizer_next
TokenizerNext ==
    /\ ~tok.crashed /\ ~tok.aborted /\ tok.calls < MaxTokCalls
    /\ tok' = [grci_tokenizer_next(tok) EXCEPT !.calls = @ + 1]
    /\ UNCHANGED <<inst, steps, ret, clean, hist, lastStore, writes, g, grci_err_buf, call, host, pair>>

NextTokenizer == TokenizerNext

SpecTokenizer == InitTokenizer /\ [][NextTokenizer]_vars

\* C30 (as claimed): every call of the tokenizer returns and leaves the read
\* index at or before the terminating NUL, also for a text that ends inside a
\* comment; a call made with the index at the NUL returns an eof token.
C30_TokenizerStaysInText ==
    /\ [](~tok.crashed /\ tok.idx <= Len(tok.buf))
    /\ [][(tok.idx = Len(tok.buf) /\ ~tok.aborted) => tok'.last.type = "GRCI_TT_EOF"]_vars

\* modules that a text defines
ModuleCount(src) == Len(SelectSeq(src, LAMBDA t : t.kind = "module"))

\* C21 (as claimed): the grci_compile_src call whose text takes the module
\* table past GRCI_MAX_MODULES definitions returns failure with a compilation
\* error.
C21_ModuleLimitIsAnError ==
    [][(/\ call'.op = "grci_compile_src"
        /\ Len(g.module_defs) + ModuleCount(SourceTexts[call'.arg]) > GRCI_MAX_MODULES)
       => (call'.status = "err" /\ call'.type = "GRCI_ERR_COMP")]_vars

\* texts with a part whose module is not in the table where the part is used:
\* never declared, the module being defined, or a module defined later
UnresolvedTexts == {Text_Nonexistent, Text_HeadOnly, Text_SelfRef, Text_Later}

\* C27 (as claimed): a part whose module name is not in the module table at
\* the point of use makes grci_compile_src return failure, and every part of
\* a registered module is a module registered before it.
C27_UnresolvedPartFails ==
    /\ (call.op = "grci_compile_src" /\ SourceTexts[call.arg] \in UnresolvedTexts) => call.status = "err"
    /\ \A m \in 1..Len(g.module_defs) :
          \A p \in 1..g.module_defs[m].part_count : g.module_defs[m].parts[p] \in 1..(m - 1)

\* the last call was grci_compile_src on that text and it returned
CompileOf(text) ==
    /\ call.op = "grci_compile_src"
    /\ call.status # "crash"
    /\ SourceTexts[call.arg] = text

\* module texts where a part gets an argument or a result of another width than
\* the part declares, one for each way of writing it
WidthMismatchTexts ==
    {Text_PlainInput, Text_PlainInputFirst, Text_SliceInput, Text_SlicePart,
     Text_NamedWire, Text_AnonWire, Text_ResultWide}

\* C12 (as claimed): grci_compile_src returns failure with a compilation error
\* whenever an argument or result of a part has a width different from the
\* declared one, however the argument is written (plain identifier, slice of a
\* module input or of a sibling part's output, named wire, anonymous wire).
C12_WidthMismatchFails ==
    \A text \in WidthMismatchTexts :
        CompileOf(text) => call.status = "err" /\ call.type = "GRCI_ERR_COMP"

\* the last call returned to its caller and a check failed in it
FailedCheck == call.status # "crash" /\ call.fails > 0

\* C13 (as claimed): once a check has failed while a module is parsed or its
\* widths are inferred, nothing later runs for that module, so it is not
\* registered in the module table, and grci_compile_src returns failure.
C13_FirstErrorStops ==
    (call.op = "grci_compile_src" /\ FailedCheck) =>
        /\ call.status = "err"
        /\ \A i \in DOMAIN call.regs : ~call.regs[i].flawed

\* C14 (as claimed): after a failing public call grci_err() holds the message
\* of that call, also when an earlier call failed with another cause.
C14_ErrIsLastFailure ==
    (call.op \in {"grci_compile_src", "grci_submodule"} /\ FailedCheck) =>
        grci_err_buf = call.cause

\* the description of the module instantiated last (m->desc)
InstDesc == g.module_defs[inst.module.desc]

\* the direct parts of the instantiated module that were given a name
NamedParts == {i \in 1..InstDesc.part_count : InstDesc.part_names[i] # NoName}

\* C15 (as claimed): grci_submodule returns a handle only for a name exactly
\* equal to the name given to a direct part of the instantiated module, and it
\* is that part's; for any other name it returns NULL and grci_err() holds the
\* simulation error.
C15_SubmoduleByExactName ==
    call.op = "grci_submodule" =>
        IF \E i \in NamedParts : InstDesc.part_names[i] = call.arg
        THEN call.status = "ok" /\ InstDesc.part_names[call.handle] = call.arg
        ELSE /\ call.status = "null"
             /\ call.type = "GRCI_ERR_SIM"
             /\ grci_err_buf = call.cause

\* the last call was a grci_compile_src that returned success
CompiledOk == call.op = "grci_compile_src" /\ call.status = "ok"

\* table entries of the modules that the last call registered
RegisteredByCall == {Len(g.module_defs) - Len(call.regs) + i : i \in 1..Len(call.regs)}

\* the description of part p (counted from 1) of description d
PartOf(d, p) == g.module_defs[d.parts[p]]

\* conn names an input bit of d, an output bit of one of its parts, or a constant
ValidDriver(d, conn) ==
    CASE conn.type = "EXTERNAL" -> conn.parameter_idx \in 0..(d.input_count - 1)
      [] conn.type = "INTERNAL" ->
            /\ conn.idx \in 0..(d.part_count - 1)
            /\ conn.output_idx \in 0..(PartOf(d, conn.idx + 1).output_count - 1)
      [] conn.type = "CONSTANT" -> conn.constant \in BOOLEAN

\* C16 (as claimed): in every module of a successful compilation, each part
\* has exactly one connection per declared input bit, and each connection
\* names an existing input bit, an existing part output, or a constant.
C16_OneConnectionPerInputBit ==
    CompiledOk =>
        \A m \in RegisteredByCall :
            \A p \in 1..g.module_defs[m].part_count :
                /\ Len(g.module_defs[m].part_connections[p]) = PartOf(g.module_defs[m], p).input_count
                /\ \A k \in DOMAIN g.module_defs[m].part_connections[p] :
                       ValidDriver(g.module_defs[m], g.module_defs[m].part_connections[p][k])

\* the reserved names and the primitive each of them stands for
ReservedNames == {"Nand", "Dff", "Ram64K"}
BuiltIn(name) ==
    CASE name = "Nand" -> nand_decl
      [] name = "Dff" -> dff_decl
      [] name = "Ram64K" -> ram64K_decl

\* the part statements of a module body, in order
PartStmts(body) == SelectSeq(body, LAMBDA s : s.kind = "part")

\* the text of the i-th module that the last grci_compile_src registered
RegisteredText(i) == SelectSeq(SourceTexts[call.arg], LAMBDA t : t.kind = "module")[i]

\* C18: whatever was compiled, also a module named Nand, Dff or Ram64K, a part
\* statement that names Nand, Dff or Ram64K is lowered to the built-in
\* primitive, and grci_init_module with one of these names instantiates the
\* built-in primitive.
C18_ReservedNamesAreBuiltIn ==
    /\ (call.op = "grci_compile_src" /\ call.status # "crash") =>
          \A i \in DOMAIN call.regs :
              \A p \in 1..Len(PartStmts(RegisteredText(i).body)) :
                  PartStmts(RegisteredText(i).body)[p].module \in ReservedNames =>
                      PartOf(g.module_defs[Len(g.module_defs) - Len(call.regs) + i], p)
                          = BuiltIn(PartStmts(RegisteredText(i).body)[p].module)
    /\ (call.op = "grci_init_module" /\ call.status = "ok" /\ call.arg \in ReservedNames) =>
          InstDesc = BuiltIn(call.arg)

\* a user module named Nand is in the table, a module compiled after it uses
\* Nand as a part, and grci_init_module("Nand") has returned
C18_Witness ==
    /\ \E m \in 4..Len(g.module_defs) : g.module_defs[m].name = "Nand"
    /\ \E u \in 4..Len(g.module_defs) :
          g.module_defs[u].name = "UseNand" /\ PartOf(g.module_defs[u], 1) = nand_decl
    /\ call.op = "grci_init_module" /\ call.arg = "Nand" /\ InstDesc = nand_decl

\* C19: a call never removes or changes a module that an earlier call
\* registered: the table before the call is a prefix of the table after it,
\* and a name that resolved before the call resolves to the same entry after
\* it, whether the call succeeds or fails.
C19_CompileIsAdditive ==
    [][/\ Len(g'.module_defs) >= Len(g.module_defs)
       /\ SubSeq(g'.module_defs, 1, Len(g.module_defs)) = g.module_defs
       /\ \A i \in 1..Len(g.module_defs) :
             grci_module_desc_list_get(g'.module_defs, g.module_defs[i].name)
                 = grci_module_desc_list_get(g.module_defs, g.module_defs[i].name)]_vars

\* Seq3 was registered by the first grci_compile_src, a second call registered
\* more, and grci_init_module then instantiated Seq3
C19_Witness ==
    /\ call.op = "grci_init_module" /\ call.status = "ok" /\ call.compiles = 2
    /\ inst.module.desc = Len(grci_compiler_init) + 1
    /\ InstDesc.name = "Seq3"
    /\ Len(g.module_defs) > Len(grci_compiler_init) + 1

\* wires that a module body declares: its wire statements and the anonymous
\* {..} arguments of its part statements
WireCount(body) ==
    Len(SelectSeq(body, LAMBDA s : s.kind = "wire"))
    + Fold(LAMBDA n, p: n + Len(SelectSeq(PartStmts(body)[p + 1].args, LAMBDA e : e.kind = "anon")),
           0, Len(PartStmts(body)))

\* the last call compiled a text with a module of more than GRCI_MAX_WIRES wires
OverWireLimit ==
    /\ call.op = "grci_compile_src"
    /\ \E j \in DOMAIN SourceTexts[call.arg] :
          /\ SourceTexts[call.arg][j].kind = "module"
          /\ WireCount(SourceTexts[call.arg][j].body) > GRCI_MAX_WIRES

\* C20 (as claimed): a module body with more than 32 wires, named and anonymous
\* together, makes grci_compile_src return failure with a compilation error,
\* and no call writes the wire tables past their 32 entries.
C20_WireLimitEnforced ==
    /\ OverWireLimit => call.status = "err" /\ call.type = "GRCI_ERR_COMP"
    /\ ~call.oob

\* e names an output bit of a part of d, or the constant 0 or 1
ValidOutputDriver(d, e) ==
    \/ e \in {output_part(GRCI_OUTPUT_0, GRCI_OUTPUT_0), output_part(GRCI_OUTPUT_1, GRCI_OUTPUT_1)}
    \/ /\ e.idx \in 0..(d.part_count - 1)
       /\ e.output_idx \in 0..(PartOf(d, e.idx + 1).output_count - 1)

\* C17 (as claimed): in every module of a successful compilation each declared
\* output bit was given its driver by a statement of the body, and the driver
\* is an output bit of one of the module's parts or the constant 0 or 1.
C17_EveryOutputDriven ==
    CompiledOk =>
        \A i \in DOMAIN call.regs :
            /\ call.regs[i].undriven = {}
            /\ \A k \in 1..g.module_defs[Len(g.module_defs) - Len(call.regs) + i].output_count :
                   ValidOutputDriver(g.module_defs[Len(g.module_defs) - Len(call.regs) + i],
                                     g.module_defs[Len(g.module_defs) - Len(call.regs) + i].outputs[k])

\* ---------------------------------------------------------------------------
\* Properties
\* ---------------------------------------------------------------------------
\* the tops built from Nand parts only, and the Boolean function each computes
NandOnlyTops == {iNand, iAnd}

NandOnlyFunction(d, in) ==
    IF d = iNand THEN <<~(in[1] /\ in[2])>> ELSE <<in[1] /\ in[2]>>

\* C1: for a module built only from Nand parts, every call of grci_step_module
\* leaves in the outputs the Boolean function of the inputs the caller set
\* before the call (a /\ b for And, at the first call as at any later one),
\* whatever level the call returns and whatever inputs and calls came before.
C1_NandOnlyOutputs ==
    [][(steps' = steps + 1 /\ Top \in NandOnlyTops)
          => inst'.outputs = NandOnlyFunction(Top, inst.inputs)]_vars

\* And(1, 1) has shown 1 after a single call
C1_Witness ==
    Top = iAnd /\ steps = 1 /\ clean /\ inst.inputs = <<TRUE, TRUE>> /\ inst.outputs = <<TRUE>>

\* C2: the clock of an instance starts at 1, every call of grci_step_module
\* toggles it once and returns the level after the toggle: call k returns 0
\* when k is odd and 1 when k is even.
C2_ClockParity ==
    /\ ClockOf(inst.sim) = (steps % 2 = 0)
    /\ steps > 0 => ret = (steps % 2 = 0)

\* the second call has returned 1 (after the first returned 0)
C2_Witness == steps = 2 /\ clean /\ ret /\ ClockOf(inst.sim)

\* last_state of every entry of the DFF list, in list order
DffStates(sim) == [k \in 1..sim.dff_node_count |-> sim.nodes[sim.dff_nodes[k]].last_state]

\* The value of a node as a function of the module inputs and of the last_state
\* of the DFFs, by structural recursion over the combinational gates
RECURSIVE CombEval(_, _)
CombEval(sim, n) ==
    CASE sim.nodes[n].type = "CONSTANT" -> sim.nodes[n].constant
      [] sim.nodes[n].type = "NAND" ->
            ~(CombEval(sim, sim.nodes[n].a) /\ CombEval(sim, sim.nodes[n].b))
      [] OTHER -> sim.nodes[n].last_state

\* Two-phase reference: the next value of every DFF, all computed from the
\* states held in sim, to be committed together
TwoPhaseNext(sim) ==
    [k \in 1..sim.dff_node_count |-> CombEval(sim, sim.nodes[sim.dff_nodes[k]].input)]

\* the simulator as a call of grci_step_module finds it once the inputs are set
\* and the state buffers of the named parts are loaded
PreStep == StepLoadStates(inst, StepSetInputs(inst))

\* C3 (as amended): on every rising-edge step each DFF's new last_state is its
\* input function over the module inputs of that step and the last_state every
\* DFF has once the step has loaded the state buffers of the named parts (the
\* pre-step last_state for DFFs outside named parts), whatever its position in
\* the DFF list: the step agrees with the two-phase reference.
C3_TwoPhaseAfterLoad ==
    [][(steps' = steps + 1 /\ ret') => DffStates(inst'.sim) = TwoPhaseNext(PreStep)]_vars

\* a rising-edge step on Seq3 has moved a set s0 into s1 while s0 itself changed
C3_Witness ==
    /\ Top = iSeq3 /\ steps = 4 /\ clean /\ ret
    /\ DffStates(inst.sim) = <<FALSE, TRUE, FALSE>>

\* C3 (as stated): the same with the last_state the DFFs hold before the call
C3_TwoPhasePreStep ==
    [][(steps' = steps + 1 /\ ret')
          => DffStates(inst'.sim) = TwoPhaseNext(StepSetInputs(inst))]_vars

\* C4 (as amended): on every falling-edge step, no DFF's last_state differs
\* between the point where the step has loaded the state buffers of the named
\* parts and the end of the step; DFFs outside named parts keep the last_state
\* they had before the call.
C4_FallingKeepsLoaded ==
    [][(steps' = steps + 1 /\ ~ret') => DffStates(inst'.sim) = DffStates(PreStep)]_vars

\* a falling-edge step on Seq3 has ended with a DFF set
C4_Witness ==
    /\ Top = iSeq3 /\ steps = 3 /\ clean /\ ~ret
    /\ \E k \in 1..3 : DffStates(inst.sim)[k]

\* C4 (as stated): no DFF's last_state differs between the start and the end of
\* a falling-edge step
C4_FallingKeepsAll ==
    [][(steps' = steps + 1 /\ ~ret') => DffStates(inst'.sim) = DffStates(inst.sim)]_vars

\* C5: for Register with in held at 5 at every call so far, the outputs read 0
\* after every call until a rising-edge call has been made with load 1, and 5
\* after every call from that one on, whatever load is later; a call with load 1
\* that returns 0 (falling edge) loads nothing.
C5_RegisterLoad ==
    (Top = iRegister /\ steps > 0 /\ \A k \in 1..Len(hist) : hist[k].in = 5)
        => OutValue(inst.outputs) =
              (IF \E k \in 1..Len(hist) : hist[k].clock /\ hist[k].load THEN 5 ELSE 0)

\* load 0,0,0,0,1,1 with in = 5: the value has appeared at the sixth call
C5_Witness ==
    /\ Top = iRegister /\ steps = 6
    /\ [k \in 1..Len(hist) |-> hist[k].load] = <<FALSE, FALSE, FALSE, FALSE, TRUE, TRUE>>
    /\ \A k \in 1..Len(hist) : hist[k].in = 5
    /\ OutValue(inst.outputs) = 5

\* what the caller sees of an instance after a call
Observed(i) == <<i.outputs, i.module.submodules>>

\* C6: when the state buffers of the named parts hold what the last call left in
\* them (copied out and written back unchanged), the next call gives, for every
\* input vector, the outputs and the submodule states that the same call gives
\* without loading the buffers.
C6_WriteBackNoChange ==
    (clean /\ steps > 0)
        => \A vec \in InputChoices(Top) :
              \A i \in {[inst EXCEPT !.inputs = vec]} :
                 Observed(grci_step_module(i, Retained)) = Observed(StepAfterLoad(i, StepSetInputs(i)))

\* Seq3 after two calls, with set DFFs in the buffers of s0 and s2
C6_Witness ==
    /\ Top = iSeq3 /\ steps = 2 /\ clean
    /\ inst.module.submodules[1].states.seq = <<TRUE>>
    /\ inst.module.submodules[3].states.seq = <<TRUE>>

\* number of Dff leaves in the tree of description d
RECURSIVE CountDff(_)
CountDff(d) ==
    IF module_defs[d].is_dff THEN 1
    ELSE Fold(LAMBDA n, p: n + CountDff(module_defs[d].parts[p + 1]), 0, Len(module_defs[d].parts))

\* the DFF nodes in the order of their creation, which is the depth-first
\* left-to-right order of the Dff leaves of the module tree
DffNodesInOrder(sim) ==
    LET S == {n \in 1..Len(sim.nodes) : sim.nodes[n].type = "DFF"}
    IN [k \in 1..Cardinality(S) |-> CHOOSE n \in S : Cardinality({m \in S : m < n}) = k - 1]

\* number of Dff leaves in the parts declared before part i (1-based) of the top
DffsBefore(i) == Fold(LAMBDA n, p: n + CountDff(module_defs[Top].parts[p + 1]), 0, i - 1)

\* C7: after every call, the DFF range of each part of the top starts where the
\* ranges of the parts declared before it end and is as long as the number of
\* DFFs in its subtree (so sibling ranges are disjoint and in declaration order),
\* and for each named part that is not a Ram64K state_count is that number and
\* states[j] is the last_state of the j-th DFF of the subtree, depth-first
\* left-to-right.
C7_StateLayout ==
    (clean /\ steps > 0)
        => \A i \in 1..PartCount :
              \A cnt \in {CountDff(module_defs[Top].parts[i])}, order \in {DffNodesInOrder(inst.sim)} :
                 /\ inst.module.dff_off_len[i] = <<DffsBefore(i), cnt>>
                 /\ (IsNamed(inst, i - 1) /\ ~IsRamPart(inst, i - 1))
                       => /\ inst.module.submodules[i].state_count = cnt
                          /\ inst.module.submodules[i].states.seq =
                                [j \in 1..cnt |-> inst.sim.nodes[order[DffsBefore(i) + j]].last_state]

\* Nest after a call, with different values in the buffers of p and q
C7_Witness ==
    /\ Top = iNest /\ steps > 0 /\ clean
    /\ inst.module.submodules[2].states.seq = <<FALSE, TRUE>>
    /\ inst.module.submodules[4].states.seq = <<TRUE, FALSE>>

C9_NoStoreOnFallingEdge ==
    [][(steps' = steps + 1 /\ ~ret') => inst'.sim.stores = {}]_vars

\* the state buffer and the RAM block of the first part of the top (a Ram64K in
\* the tops of RamTops and ChainTops)
RamBuffer(i) == i.module.submodules[1].states

RamBlock(i, sim) == RamOfPart(i, sim, 0)

\* the bytes of the store the layout is read at: the first two, the last one
\* and every byte that holds a value of its own
ProbeBytes(i, sim) ==
    {0, 1, RamBytes - 1} \cup DOMAIN sim.rams[RamBlock(i, sim)].data.m \cup DOMAIN RamBuffer(i).m

\* element j*8 + k of the buffer is bit k of byte j of the store in sim
BufferIsStore(i, sim) ==
    \A j \in ProbeBytes(i, sim), k \in 0..7 :
        RamStatesGet(RamBuffer(i), j * 8 + k) = (BitOf(ReadByte(sim, RamBlock(i, sim), j), k) = 1)

\* C10: for a named Ram64K part, element j*8+i of the state buffer is bit i
\* (bit 0 the least significant) of byte j of the store, both in the store as a
\* call has loaded it from the buffer and in the buffer as the call leaves it;
\* and a call that makes no store leaves the buffer as it found it.
C10_RamBufferLayout ==
    /\ [](IsNamed(inst, 0) => BufferIsStore(inst, PreStep))
    /\ []((IsNamed(inst, 0) /\ clean /\ steps > 0) => BufferIsStore(inst, inst.sim))
    /\ [][(IsNamed(inst, 0) /\ steps' = steps + 1 /\ inst'.sim.stores = {})
             => RamBuffer(inst') = RamBuffer(inst)]_vars

\* Mem after 258 was stored at address 0: elements 1 and 8 of the buffer are set
C10_Witness ==
    /\ Top = iMem /\ steps = 3 /\ clean /\ lastStore = <<0, 258>>
    /\ RamStatesGet(RamBuffer(inst), 1) /\ RamStatesGet(RamBuffer(inst), 8)
    /\ ~RamStatesGet(RamBuffer(inst), 0)

\* every top the caller instantiates, stepped
ElabTops == LogicTops \cup RamTops \cup ChainTops

SpecElab == InitOf(ElabTops) /\ [][NextChain]_vars

\* nodes of sim that stand for primitives: NAND gates, DFFs, RAM outputs
PrimitiveNodes(sim) == {n \in 1..Len(sim.nodes) : sim.nodes[n].type \in {"NAND", "DFF", "RAM64KOUT"}}

\* C26: the node count and the DFF count of a description are the sums of the
\* counts of its parts (Nand 1 and 0, Dff 1 and 1, Ram64K 16 and 16); its
\* instance holds exactly that many primitive nodes and DFF-list entries, 3
\* shared nodes and one constant node per input bit, and no node or DFF-list
\* entry was created past the end of the node array or of the DFF list.
C26_NodeCounts ==
    LET d == module_defs[Top]
    IN /\ <<module_defs[iNand].node_count, module_defs[iNand].dff_count>> = <<1, 0>>
       /\ <<module_defs[iDff].node_count, module_defs[iDff].dff_count>> = <<1, 1>>
       /\ <<module_defs[iRam64K].node_count, module_defs[iRam64K].dff_count>> = <<16, 16>>
       /\ \A m \in (Len(grci_compiler_init) + 1)..Len(module_defs) :
             /\ module_defs[m].node_count
                   = Fold(LAMBDA n, p: n + module_defs[module_defs[m].parts[p + 1]].node_count,
                          0, Len(module_defs[m].parts))
             /\ module_defs[m].dff_count
                   = Fold(LAMBDA n, p: n + module_defs[module_defs[m].parts[p + 1]].dff_count,
                          0, Len(module_defs[m].parts))
       /\ Cardinality(PrimitiveNodes(inst.sim)) = d.node_count
       /\ inst.sim.dff_node_count = d.dff_count /\ Len(inst.sim.dff_nodes) = d.dff_count
       /\ inst.sim.node_count = d.node_count + d.input_count + 3
       /\ inst.sim.node_count <= inst.sim.node_cap
       /\ inst.sim.dff_node_count <= inst.sim.dff_cap
       /\ ~inst.sim.overrun

\* MemChain (two Ram64K parts: 32 primitive nodes, 32 DFF-list entries, 33
\* input constants) after a rising-edge step
C26_Witness ==
    /\ Top = iMemChain /\ steps = 2 /\ ret
    /\ inst.sim.node_count = 32 + 33 + 3 /\ inst.sim.dff_node_count = 32

\* the caller of MemChain also writes the state buffers of its named Ram64K parts
SpecChainWrites == InitChain /\ [][NextRam]_vars

\* the DFFs of part i (0-based) of the top hold in sim what the buffer of the
\* part holds in instance m
DffsHoldBuffer(m, sim, i) ==
    \A j \in 1..m.module.submodules[i + 1].state_count :
        sim.nodes[sim.dff_nodes[m.module.dff_off_len[i + 1][1] + j]].last_state
            = m.module.submodules[i + 1].states.seq[j]

\* the store of the Ram64K part i (0-based) holds in sim, at every element the
\* caller writes, what the buffer of the part holds in instance m, and so does
\* the buffer of the part in instance n
RamHoldsBuffer(m, n, sim, i) ==
    \A idx \in RamStateWrites :
        /\ RamStatesGet(n.module.submodules[i + 1].states, idx)
              = RamStatesGet(m.module.submodules[i + 1].states, idx)
        /\ (BitOf(ReadByte(sim, RamOfPart(m, sim, i), idx \div 8), idx % 8) = 1)
              = RamStatesGet(m.module.submodules[i + 1].states, idx)

\* C24 (as claimed): a falling-edge step that follows a write of the caller into
\* a state buffer ends with every named part in the state its buffer held when
\* the step began: the DFFs of the part hold the buffer's values and the buffer
\* is as the caller left it; the store of a Ram64K part and its buffer hold what
\* the caller wrote.
C24_WrittenStateStartsStep ==
    [][(steps' = steps + 1 /\ ~clean /\ ~ret')
          => \A i \in 0..(PartCount - 1) :
                IsNamed(inst, i)
                   => IF IsRamPart(inst, i)
                      THEN RamHoldsBuffer(inst, inst', inst'.sim, i)
                      ELSE /\ inst'.module.submodules[i + 1].states = inst.module.submodules[i + 1].states
                           /\ DffsHoldBuffer(inst, inst'.sim, i)]_vars

C28_RamAccessInsideStore ==
    \A t \in inst.sim.touched : t.byte \in 0..(RamBytes - 1)

\* instance m as the claim has it right after grci_init_module: every DFF at 0,
\* every buffer of a named part all zeros, the first and the last bytes of
\* every RAM store reading 0 once a step has loaded the buffers
FreshZero(m) ==
    /\ \A n \in 1..Len(m.sim.nodes) : m.sim.nodes[n].type = "DFF" => ~m.sim.nodes[n].last_state
    /\ \A i \in 0..(Len(m.module.submodules) - 1) :
          IsNamed(m, i) => m.module.submodules[i + 1].states
                              = ZeroStates(IsRamPart(m, i), m.module.submodules[i + 1].state_count)
    /\ \A r \in 1..Len(m.sim.rams), j \in {0, 1, RamBytes - 1} :
          ReadByte(StepLoadStates(m, StepSetInputs(m)), r, j) = 0

\* C29 (as claimed): before the first step and with nothing written by the
\* caller, every DFF is 0, every state buffer of a named part is all zeros and
\* every Ram64K byte reads 0; the first step of a fresh RAM instance with load
\* low shows 0 on the outputs, so two fresh instances show the same.
C29_FreshInstanceIsZero ==
    /\ [](steps = 0 => FreshZero(inst))
    /\ [][(steps = 0 /\ steps' = 1 /\ Top \in RamTops /\ ~VecLoad(inst.inputs))
             => OutValue(inst'.outputs) = 0]_vars

\* pairs <<j, k>> of positions in the DFF list with j before k and the DFF at j
\* wired straight to the input of the DFF at k
DirectFeeds(sim) ==
    {p \in (1..sim.dff_node_count) \X (1..sim.dff_node_count) :
        /\ p[1] < p[2]
        /\ sim.nodes[sim.dff_nodes[p[2]]].type = "DFF"
        /\ sim.nodes[sim.dff_nodes[p[2]]].input = sim.dff_nodes[p[1]]}

\* C11 (as amended): in a rising-edge pass a DFF evaluated later in the DFF list
\* observes the last_state the earlier DFF had when the pass began, not its new
\* value: a DFF fed straight from an earlier DFF ends the step with that DFF's
\* earlier state.
C11_LaterSeesOldValue ==
    [][(steps' = steps + 1 /\ ret')
          => \A p \in DirectFeeds(inst.sim) :
                DffStates(inst'.sim)[p[2]] = DffStates(PreStep)[p[1]]]_vars

\* Seq3 after its first rising edge: s0 went from 0 to 1 and s1, fed by s0, took 0
C11_Witness ==
    /\ Top = iSeq3 /\ steps = 2 /\ clean /\ ret
    /\ <<1, 2>> \in DirectFeeds(inst.sim)
    /\ DffStates(inst.sim) = <<TRUE, FALSE, TRUE>>

\* C11 (as stated): the later DFF ends the step with the new value of the
\* earlier DFF that feeds it
C11_LaterSeesNewValue ==
    [][(steps' = steps + 1 /\ ret')
          => \A p \in DirectFeeds(inst.sim) :
                DffStates(inst'.sim)[p[2]] = DffStates(inst'.sim)[p[1]]]_vars

====
